---- MODULE Spec2Model ----
(***************************************************************************)
(* The bot marketplace: the mediator's registry (bots, services, requests, *)
(* transaction log, TTL expiry tasks), the requestor bot's negotiation     *)
(* state and the provider bot's request processing.                        *)
(***************************************************************************)
EXTENDS Integers, Sequences, FiniteSets, TLC

VARIABLES
    bots,           \* MediatorService.bots: bot id -> Bot
    services,       \* MediatorService.services: service id -> ServiceDefinition
    requests,       \* MediatorService.requests: request id -> ServiceRequest
    transactions,   \* MediatorService.transactions: the log, oldest first
    timers,         \* the pending _expire_service / _expire_request tasks
    now,            \* the clock, in seconds
    uuid_count,     \* how many uuid4() values have been drawn
    active_requests,    \* RequestorBot.active_requests: request id -> request
    request_responses,  \* RequestorBot.request_responses: request id -> list
    consume_tasks,      \* the pending consume_service background tasks
    broadcast_tasks,    \* the pending broadcast_request background tasks
    provider_active_requests,   \* ProviderBot.active_requests: key -> request
    dynamic_endpoints,  \* ProviderBot.dynamic_endpoints, in insertion order
    tasks,          \* the process_request tasks of the provider, oldest first
    started,        \* the bots whose start() has registered and is serving
    deleting,       \* the delete_bot handler that is running, if one is
    response_quality,   \* AIOrchestrator.response_quality: provider id -> sums
    provider_cache,     \* AIOrchestrator.provider_cache, in insertion order
    keep_running,   \* ProviderBot.keep_running
    loops,          \* where poll_for_requests and cleanup_expired_services are
    stored_at,      \* history: service id -> [at, refresh] of its latest store
    last            \* history: the last operation, its arguments and its answer

mediator_vars == <<bots, services, requests, transactions, timers, now,
                   stored_at>>

requestor_vars == <<active_requests, request_responses, consume_tasks,
                    broadcast_tasks>>

provider_vars == <<provider_active_requests, dynamic_endpoints, tasks>>

orchestrator_vars == <<response_quality, provider_cache>>

loop_vars == <<keep_running, loops>>

vars == <<mediator_vars, uuid_count, requestor_vars, provider_vars, started,
          deleting, orchestrator_vars, loop_vars, last>>

\* ---------------------------------------------------------------- bounds

\* Spec: the log entries written, and the seconds that pass.
MaxLog == 3
MaxTime == 2

\* SpecCascade: the log entries written.
MaxLogCascade == 5

\* SpecRequestor: the calls of /request and of /offer.
MaxRequests == 1
MaxOffers == 2

\* SpecProvider: the process_request tasks created, and the requests the
\* mediator holds.
MaxTasks == 1
MaxPublished == 1

\* SpecMatcher: the requests posted to the provider's /request.
MaxDeliveries == 2

\* SpecFingerprint: the pieces a description is made of.
MaxPieces == 2

\* SpecSelection: the providers in the cache and the entries of the
\* oracle's "matches".
MaxProviders == 3
MaxMatches == 2

\* SpecNotify: the requests delivered to the provider.
MaxNotifying == 2

\* SpecIds: the length of the transaction log.
MaxIdLog == 4

\* SpecRanking: the responses to rank and the entries of the oracle's
\* "rankings".
MaxResponses == 2
MaxRankings == 2

\* SpecRequests: the publications logged.
MaxPublications == 3

\* SpecAtomic: the length of the transaction log.
MaxLogAtomic == 3

\* Log entries written while stored requests are watched.
MaxStored == 2

\* Ranking entries counted into the quality aggregate before ranking stops.
MaxScored == 2

\* process_request tasks of the provider while its probes are spelled out.
MaxProbing == 3

\* process_request tasks while a request reaches the provider on two ways.
MaxBegun == 2

\* ------------------------------------------------------------ basic values

None == "None"

\* An Optional[int]: None is <<>>, the integer n is SomeInt(n).
NoneInt == <<>>

SomeInt(n) == <<n>>

\* Python truthiness of an Optional[int], as `if service.ttl:` reads it.
TruthyInt(v) == v # NoneInt /\ v[1] # 0

\* Python truthiness of a str or an Optional[str], as `if not service.id:` reads it.
Truthy(v) == v # None /\ v # ""

\* A dict as a function on its keys.
EmptyDict == [k \in {} |-> None]

Put(d, k, v) == [x \in DOMAIN d \cup {k} |-> IF x = k THEN v ELSE d[x]]

Pop(d, k) == [x \in DOMAIN d \ {k} |-> d[x]]

UuidFixed(n) == "uuid-0"

\* str(uuid.uuid4()): the n-th value drawn; no two draws are equal.
Uuid(n) == "uuid-" \o ToString(n)

BotIds == {"b1", "b2"}

BotInputs ==
    { [id |-> "b1", name |-> "provider-1", type |-> "provider",
       capabilities |-> {"finance"}],
      [id |-> "b2", name |-> "provider-2", type |-> "provider",
       capabilities |-> {"finance"}] }

TTLs == {NoneInt, SomeInt(2)}

\* The ServiceDefinition bodies a client posts to /services/register; the id
\* "" is the falsy id for which the mediator generates one.
ServiceInputs ==
    [ id : {"", "s1"}, name : {"svc"}, provider_id : BotIds,
      category : {"finance"}, endpoint : {"ep"}, ttl : TTLs ]

\* The ServiceNotification bodies a provider posts to /services/notify.
NotificationInputs ==
    [ service_id : {"", "s1"}, provider_id : BotIds, requestor_id : {None},
      endpoint : {"ep"}, category : {"finance"}, ttl : TTLs ]

\* ------------------------------------------------------------- the mediator

log_transaction(transaction_type, details) ==
    Append(transactions,
           [type |-> transaction_type, timestamp |-> now, details |-> details])

\* background_tasks.add_task(self._expire_service, id, ttl): the task sleeps
\* ttl seconds from now on.
add_expiry(kind, id, ttl) ==
    Append(timers, [kind |-> kind, id |-> id, fire_at |-> now + ttl])

\* The record of an operation: what was called, with which id and provider id,
\* the status it answered, and the service ids it removed.
Answer(op, id, provider, status) ==
    [op |-> op, id |-> id, provider |-> provider, status |-> status,
     removed |-> {}]

register_bot(bot) ==
    /\ bots' = Put(bots, bot.id, bot)
    /\ transactions' = log_transaction("bot_registration", [bot_id |-> bot.id])
    /\ last' = Answer("register_bot", bot.id, None, "200")
    /\ UNCHANGED <<services, requests, timers, now, uuid_count, stored_at,
                   requestor_vars, provider_vars,
                   started, deleting, orchestrator_vars,
                   loop_vars>>

services_to_remove_by_id(bot_id) ==
    { service_id \in DOMAIN services : services[service_id].id = bot_id }

services_to_remove(bot_id) ==
    { service_id \in DOMAIN services :
        services[service_id].provider_id = bot_id }

delete_bot(bot_id) ==
    IF bot_id \notin DOMAIN bots
    THEN /\ last' = Answer("delete_bot", bot_id, None, "404")
         /\ UNCHANGED <<mediator_vars, uuid_count, requestor_vars,
                   provider_vars, started, deleting, orchestrator_vars,
                   loop_vars>>
    ELSE /\ bots' = Pop(bots, bot_id)
         /\ services' = [ s \in DOMAIN services \ services_to_remove(bot_id)
                            |-> services[s] ]
         /\ transactions' =
                log_transaction("bot_deregistration", [bot_id |-> bot_id])
         /\ last' = [Answer("delete_bot", bot_id, None, "200")
                        EXCEPT !.removed = services_to_remove(bot_id)]
         /\ UNCHANGED <<requests, timers, now, uuid_count, stored_at,
                        requestor_vars, provider_vars,
                   started, deleting, orchestrator_vars,
                   loop_vars>>

\* delete_bot statement by statement, for what another handler could see of
\* it.  awaits says whether the handler gives up the event loop at a point
\* of its body: delete_bot is a coroutine without an await, and the
\* mediator runs on one event loop.
awaits_everywhere(pc) == TRUE

awaits(pc) == FALSE

\* Another handler may run: no delete_bot is in progress, or the one in
\* progress is suspended.
may_run == deleting = <<>> \/ awaits(deleting[1].pc)

\* Line 84: the bot is popped.
delete_bot_pop_bot(bot_id) ==
    /\ deleting = <<>>
    /\ bot_id \in DOMAIN bots
    /\ bots' = Pop(bots, bot_id)
    /\ deleting' = <<[bot_id |-> bot_id, pc |-> "listing", to_remove |-> {},
                      removed |-> {}]>>
    /\ last' = Answer("delete_bot", bot_id, None, "running")
    /\ UNCHANGED <<services, requests, transactions, timers, now, uuid_count,
                   stored_at, requestor_vars, provider_vars, started,
                   orchestrator_vars,
                   loop_vars>>

\* Lines 87-90: the services of the bot are listed.
delete_bot_list_services ==
    /\ deleting # <<>>
    /\ deleting[1].pc = "listing"
    /\ deleting' = <<[deleting[1] EXCEPT
                         !.pc = "popping",
                         !.to_remove = services_to_remove(deleting[1].bot_id)]>>
    /\ last' = Answer("delete_bot", deleting[1].bot_id, None, "running")
    /\ UNCHANGED <<mediator_vars, uuid_count, requestor_vars, provider_vars,
                   started, orchestrator_vars,
                   loop_vars>>

\* Lines 92-93: one listed service is popped; a listed service that is no
\* longer stored raises KeyError and ends the handler.
delete_bot_pop_service(service_id) ==
    /\ deleting # <<>>
    /\ deleting[1].pc = "popping"
    /\ service_id \in deleting[1].to_remove
    /\ IF service_id \in DOMAIN services
       THEN /\ services' = Pop(services, service_id)
            /\ deleting' = <<[deleting[1] EXCEPT
                                !.to_remove = @ \ {service_id},
                                !.removed = @ \cup {service_id}]>>
            /\ last' = Answer("delete_bot", deleting[1].bot_id, None, "running")
       ELSE /\ services' = services
            /\ deleting' = <<>>
            /\ last' = Answer("delete_bot", deleting[1].bot_id, None, "500")
    /\ UNCHANGED <<bots, requests, transactions, timers, now, uuid_count,
                   stored_at, requestor_vars, provider_vars, started,
                   orchestrator_vars,
                   loop_vars>>

\* Lines 95-96: the deregistration is logged and answered.
delete_bot_return ==
    /\ deleting # <<>>
    /\ deleting[1].pc = "popping"
    /\ deleting[1].to_remove = {}
    /\ transactions' = log_transaction("bot_deregistration",
                                       [bot_id |-> deleting[1].bot_id])
    /\ deleting' = <<>>
    /\ last' = [Answer("delete_bot", deleting[1].bot_id, None, "200")
                   EXCEPT !.removed = deleting[1].removed]
    /\ UNCHANGED <<bots, services, requests, timers, now, uuid_count,
                   stored_at, requestor_vars, provider_vars, started,
                   orchestrator_vars,
                   loop_vars>>

\* GET /transactions.  entries[-limit:] for a positive limit: the slice
\* starts limit places before the end, or at the first entry when the list
\* is shorter.
first_entries(entries, limit) ==
    SubSeq(entries, 1, IF limit < Len(entries) THEN limit ELSE Len(entries))

last_entries(entries, limit) ==
    LET start == IF Len(entries) - limit < 0 THEN 0 ELSE Len(entries) - limit
    IN  SubSeq(entries, start + 1, Len(entries))

filtered_transactions(transaction_type) ==
    LET of_type(t) == t.type = transaction_type
    IN  IF Truthy(transaction_type) THEN SelectSeq(transactions, of_type)
        ELSE transactions

get_transactions(transaction_type, limit) ==
    /\ last' = [op |-> "get_transactions", type |-> transaction_type,
                limit |-> limit,
                returned |-> IF limit > 0
                             THEN last_entries(
                                      filtered_transactions(transaction_type),
                                      limit)
                             ELSE <<>>]
    /\ UNCHANGED <<mediator_vars, uuid_count, requestor_vars, provider_vars,
                   started, deleting, orchestrator_vars,
                   loop_vars>>

\* GET /bots/{bot_id}: 404 for an id that is not registered.
bot_found_always(bot_id) == TRUE

bot_found(bot_id) == bot_id \in DOMAIN bots

get_bot(bot_id) ==
    /\ last' = Answer("get_bot", bot_id, None,
                      IF bot_found(bot_id) THEN "200" ELSE "404")
    /\ UNCHANGED <<mediator_vars, uuid_count, requestor_vars, provider_vars,
                   started, deleting, orchestrator_vars,
                   loop_vars>>

\* GET /services and GET /services/{service_id}: they read and change
\* nothing.
get_services_handler(category, provider_id) ==
    /\ last' = Answer("get_services", None, provider_id, "200")
    /\ UNCHANGED <<mediator_vars, uuid_count, requestor_vars, provider_vars,
                   started, deleting, orchestrator_vars,
                   loop_vars>>

get_service(service_id) ==
    /\ last' = Answer("get_service", service_id, None,
                      IF service_id \in DOMAIN services THEN "200" ELSE "404")
    /\ UNCHANGED <<mediator_vars, uuid_count, requestor_vars, provider_vars,
                   started, deleting, orchestrator_vars,
                   loop_vars>>

provider_exists_unchecked(provider_id) == TRUE

provider_exists(provider_id) == provider_id \in DOMAIN bots

\* History: the service is stored with a TTL whose deadline is still ahead.
pending_deadline(service_id) ==
    /\ service_id \in DOMAIN services
    /\ TruthyInt(services[service_id].ttl)
    /\ now < stored_at[service_id].at + services[service_id].ttl[1]

\* The store, expiry scheduling and log entry that /services/register and
\* /services/notify share in shape.
store_service(service, logged) ==
    /\ services' = Put(services, service.id, service)
    /\ timers' = IF TruthyInt(service.ttl)
                 THEN add_expiry("service", service.id, service.ttl[1])
                 ELSE timers
    /\ transactions' = log_transaction(logged.type, logged.details)
    /\ stored_at' = Put(stored_at, service.id,
                        [at |-> now, refresh |-> pending_deadline(service.id)])

register_service(service) ==
    IF ~provider_exists(service.provider_id)
    THEN /\ last' = Answer("register_service", service.id,
                           service.provider_id, "400")
         /\ UNCHANGED <<mediator_vars, uuid_count, requestor_vars,
                   provider_vars, started, deleting, orchestrator_vars,
                   loop_vars>>
    ELSE LET generate == ~Truthy(service.id)
             sid == IF generate THEN Uuid(uuid_count + 1) ELSE service.id
             stored == [service EXCEPT !.id = sid]
         IN /\ uuid_count' = IF generate THEN uuid_count + 1 ELSE uuid_count
            /\ store_service(stored,
                   [type |-> "service_registration",
                    details |-> [service_id |-> sid,
                                 provider_id |-> service.provider_id]])
            /\ last' = Answer("register_service", sid, service.provider_id,
                              "200")
            /\ UNCHANGED <<bots, requests, now, requestor_vars, provider_vars,
                   started, deleting, orchestrator_vars,
                   loop_vars>>

delete_service(service_id) ==
    IF service_id \notin DOMAIN services
    THEN /\ last' = Answer("delete_service", service_id, None, "404")
         /\ UNCHANGED <<mediator_vars, uuid_count, requestor_vars,
                   provider_vars, started, deleting, orchestrator_vars,
                   loop_vars>>
    ELSE /\ services' = Pop(services, service_id)
         /\ transactions' =
                log_transaction("service_deletion", [service_id |-> service_id])
         /\ last' = Answer("delete_service", service_id, None, "200")
         /\ UNCHANGED <<bots, requests, timers, now, uuid_count, stored_at,
                        requestor_vars, provider_vars,
                   started, deleting, orchestrator_vars,
                   loop_vars>>

\* The ServiceDefinition that /services/notify builds from a notification.
service_from_notification(notification, service_id) ==
    [ id |-> service_id,
      name |-> "Service from " \o notification.provider_id,
      provider_id |-> notification.provider_id,
      category |-> notification.category,
      endpoint |-> notification.endpoint,
      ttl |-> notification.ttl ]

\* What /services/notify does to the mediator once the id is settled.
notify_store(notification, service_id) ==
    store_service(service_from_notification(notification, service_id),
        [type |-> "service_notification",
         details |-> [service_id |-> service_id,
                      provider_id |-> notification.provider_id,
                      requestor_id |-> notification.requestor_id]])

notify_service(notification) ==
    LET generate == ~Truthy(notification.service_id)
        service_id == IF generate THEN Uuid(uuid_count + 1)
                      ELSE notification.service_id
    IN /\ uuid_count' = IF generate THEN uuid_count + 1 ELSE uuid_count
       /\ notify_store(notification, service_id)
       /\ last' = Answer("notify_service", service_id,
                         notification.provider_id, "200")
       /\ UNCHANGED <<bots, requests, now, requestor_vars, provider_vars,
                   started, deleting, orchestrator_vars,
                   loop_vars>>

\* What /requests/publish does to the mediator: the request is stored under
\* the id the mediator drew, its expiry is scheduled and the log extended.
publish_request(request, request_id) ==
    /\ requests' = Put(requests, request_id, request)
    /\ timers' = IF TruthyInt(request.ttl)
                 THEN add_expiry("request", request_id, request.ttl[1])
                 ELSE timers
    /\ transactions' = log_transaction("request_publication",
                           [request_id |-> request_id,
                            requestor_id |-> request.requestor_id])

\* One pending _expire_service task wakes up: its sleep(ttl) is over.
expire_service(i) ==
    /\ timers[i].kind = "service"
    /\ timers[i].fire_at = now
    /\ timers' = [ j \in 1..(Len(timers) - 1) |->
                     IF j < i THEN timers[j] ELSE timers[j + 1] ]
    /\ services' = IF timers[i].id \in DOMAIN services
                   THEN Pop(services, timers[i].id)
                   ELSE services
    /\ last' = Answer("expire_service", timers[i].id, None,
                      IF timers[i].id \in DOMAIN services THEN "removed"
                      ELSE "noop")
    /\ UNCHANGED <<bots, requests, transactions, now, uuid_count, stored_at,
                   requestor_vars, provider_vars,
                   started, deleting, orchestrator_vars,
                   loop_vars>>

\* What _expire_request leaves of the requests when its sleep is over.
expired_requests_all(request_id) == EmptyDict

expired_requests(request_id) ==
    IF request_id \in DOMAIN requests THEN Pop(requests, request_id)
    ELSE requests

\* One pending _expire_request task wakes up: its sleep(ttl) is over.
expire_request(i) ==
    /\ timers[i].kind = "request"
    /\ timers[i].fire_at = now
    /\ timers' = [ j \in 1..(Len(timers) - 1) |->
                     IF j < i THEN timers[j] ELSE timers[j + 1] ]
    /\ requests' = expired_requests(timers[i].id)
    /\ last' = Answer("expire_request", timers[i].id, None,
                      IF timers[i].id \in DOMAIN requests THEN "removed"
                      ELSE "noop")
    /\ UNCHANGED <<bots, services, transactions, now, uuid_count, stored_at,
                   requestor_vars, provider_vars, started, deleting, orchestrator_vars,
                   loop_vars>>

\* GET /requests: a copy of the requests, narrowed by the filters given; a
\* filter that is None or empty is not applied.
get_requests(category, requestor_id) ==
    LET all == DOMAIN requests
        by_category == IF Truthy(category)
                       THEN {r \in all : requests[r].category = category}
                       ELSE all
        by_requestor == IF Truthy(requestor_id)
                        THEN {r \in by_category :
                                 requests[r].requestor_id = requestor_id}
                        ELSE by_category
    IN  [r \in by_requestor |-> requests[r]]

\* GET /requests.
get_requests_handler(category, requestor_id) ==
    /\ last' = [op |-> "get_requests", status |-> "200",
                returned |-> get_requests(category, requestor_id)]
    /\ UNCHANGED <<mediator_vars, uuid_count, requestor_vars, provider_vars,
                   started, deleting, orchestrator_vars,
                   loop_vars>>

\* A second passes; a task whose sleep is over runs before the next one does.
Tick ==
    /\ \A i \in 1..Len(timers) : timers[i].fire_at # now
    /\ now' = now + 1
    /\ last' = Answer("tick", None, None, "")
    /\ UNCHANGED <<bots, services, requests, transactions, timers, uuid_count,
                   stored_at, requestor_vars, provider_vars,
                   started, deleting, orchestrator_vars,
                   loop_vars>>

\* --------------------------------------------------- the request fingerprint

\* A description is a str; the fingerprint reads it character by character,
\* so each description the model uses is listed with its characters.
DescriptionChars ==
    [ d \in { "AAPL stock price", "aapl  stock, price!", "MSFT stock price",
               "AI trends" } |->
        CASE d = "AAPL stock price" ->
               << "A", "A", "P", "L", " ", "s", "t", "o", "c", "k", " ",
                  "p", "r", "i", "c", "e" >>
          [] d = "aapl  stock, price!" ->
               << "a", "a", "p", "l", " ", " ", "s", "t", "o", "c", "k", ",",
                  " ", "p", "r", "i", "c", "e", "!" >>
          [] d = "MSFT stock price" ->
               << "M", "S", "F", "T", " ", "s", "t", "o", "c", "k", " ",
                  "p", "r", "i", "c", "e" >>
          [] d = "AI trends" ->
               << "A", "I", " ", "t", "r", "e", "n", "d", "s" >> ]

Descriptions == DOMAIN DescriptionChars

UpperCase == << "A", "B", "C", "D", "E", "F", "G", "H", "I", "J", "K", "L", "M",
                "N", "O", "P", "Q", "R", "S", "T", "U", "V", "W", "X", "Y", "Z" >>

LowerCase == << "a", "b", "c", "d", "e", "f", "g", "h", "i", "j", "k", "l", "m",
                "n", "o", "p", "q", "r", "s", "t", "u", "v", "w", "x", "y", "z" >>

\* str.lower(), one character
LowerChar(c) ==
    IF \E i \in DOMAIN UpperCase : UpperCase[i] = c
    THEN LowerCase[CHOOSE i \in DOMAIN UpperCase : UpperCase[i] = c]
    ELSE c

Lower(str) == [i \in DOMAIN str |-> LowerChar(str[i])]

\* \s and \w of the regular expressions, on the characters the model uses
IsSpace(c) == c \in {" "}

IsWord(c) == c \notin {" ", ",", "!", ".", "?", ":", "-"}

RECURSIVE Filter(_, _)
\* re.sub(r'[^\w\s]', '', str): only word characters and whitespace stay
StripPunctuation(str) ==
    Filter(str, 1)

Filter(str, i) ==
    IF i > Len(str) THEN <<>>
    ELSE IF IsWord(str[i]) \/ IsSpace(str[i])
         THEN <<str[i]>> \o Filter(str, i + 1)
         ELSE Filter(str, i + 1)

RECURSIVE Collapse(_, _)
\* re.sub(r'\s+', ' ', str): each run of whitespace becomes one space
CollapseSpaces(str) == Collapse(str, 1)

Collapse(str, i) ==
    IF i > Len(str) THEN <<>>
    ELSE IF IsSpace(str[i])
         THEN IF i > 1 /\ IsSpace(str[i - 1])
              THEN Collapse(str, i + 1)
              ELSE <<" ">> \o Collapse(str, i + 1)
         ELSE <<str[i]>> \o Collapse(str, i + 1)

\* str.strip()
Strip(str) ==
    LET keep == {i \in DOMAIN str : ~IsSpace(str[i])}
    IN IF keep = {} THEN <<>>
       ELSE LET lo == CHOOSE i \in keep : \A j \in keep : i <= j
                hi == CHOOSE i \in keep : \A j \in keep : j <= i
            IN SubSeq(str, lo, hi)

\* `sub in str`
Contains(str, sub) ==
    LET text == str
        word == sub
    IN \E i \in 1..(Len(text) - Len(word) + 1) :
           SubSeq(text, i, i + Len(word) - 1) = word

stock_symbols ==
    << << "A", "A", "P", "L" >>, << "M", "S", "F", "T" >>,
       << "G", "O", "O", "G", "L" >>, << "A", "M", "Z", "N" >>,
       << "M", "E", "T", "A" >> >>

StockData == << " ", "s", "t", "o", "c", "k", " ", "d", "a", "t", "a" >>

Trends == << "t", "r", "e", "n", "d", "s" >>

AiTrends == << "a", "i", " ", "t", "r", "e", "n", "d", "s" >>

\* The description as _create_request_hash normalizes it.
normalized_description(category, description) ==
    LET base == Strip(CollapseSpaces(StripPunctuation(Lower(description))))
        lowered == Lower(base)
        hits == { i \in DOMAIN stock_symbols :
                    Contains(lowered, Lower(stock_symbols[i])) }
        finance ==
            IF category = "finance" /\ hits # {}
            THEN stock_symbols[CHOOSE i \in hits : \A j \in hits : i <= j]
                     \o StockData
            ELSE base
        relowered == Lower(finance)
    IN IF category = "ai" /\ Contains(relowered, Trends)
       THEN AiTrends
       ELSE finance

RECURSIVE Join(_)
\* The str of a sequence of characters.
Join(chars) ==
    IF chars = <<>> THEN "" ELSE Head(chars) \o Join(Tail(chars))

hash_input_raw(category, description) ==
    category \o ":" \o Join(description)

\* f"{request.category.value}:{normalized_description}", for the description
\* given by its characters
hash_input(category, description) ==
    category \o ":" \o Join(normalized_description(category, description))

\* hashlib.md5(hash_input.encode()).hexdigest(): the digest is written as its
\* input, as md5 is taken to be free of collisions.
md5_hexdigest(input) == "md5(" \o input \o ")"

create_request_hash(request) ==
    md5_hexdigest(hash_input(request.category,
                             DescriptionChars[request.description]))

\* The descriptions the fingerprint is computed for on its own: every
\* sequence of at most MaxPieces of these pieces.
Pieces ==
    { << "A", "A", "P", "L" >>, << "a", "a", "p", "l" >>,
      << "M", "S", "F", "T" >>, << "t", "r", "e", "n", "d", "s" >>,
      << " " >>, << "," >> }

RECURSIVE DescriptionsOf(_)
DescriptionsOf(n) ==
    IF n = 0 THEN { <<>> }
    ELSE DescriptionsOf(n - 1)
             \cup { d \o piece : d \in DescriptionsOf(n - 1), piece \in Pieces }

Categories == {"finance", "ai", "news"}

\* _create_request_hash applied to two requests of one category.
hash_two_requests(category, d1, d2) ==
    /\ last' = [ op |-> "create_request_hash", category |-> category,
                 d1 |-> d1, d2 |-> d2,
                 h1 |-> md5_hexdigest(hash_input(category, d1)),
                 h2 |-> md5_hexdigest(hash_input(category, d2)) ]
    /\ UNCHANGED <<mediator_vars, uuid_count, requestor_vars, provider_vars,
                   started, deleting, orchestrator_vars,
                   loop_vars>>

\* ------------------------------------------------------- the requestor bot

\* BotBase.id of the requestor: a uuid drawn at construction.
RequestorId == "requestor-1"

Formats == {"json", "csv"}

\* The arguments of a call of /request.
RequestArgs ==
    [ category : {"finance"}, description : {"AAPL stock price"},
      required_format : {"json"}, ttl : {NoneInt} ]

\* The request ids an offer may name: the ones the requestor holds and one
\* that was never published.
OfferRequestIds == DOMAIN active_requests \cup {"never-published"}

\* The NegotiationOffer bodies a peer posts to /offer.
OfferInputs ==
    [ request_id : OfferRequestIds, provider_id : {"provider-1"},
      can_fulfill : BOOLEAN, proposed_endpoint : {None, "", "ep"},
      proposed_format : Formats, constraints : {None}, ttl : {NoneInt} ]

\* What the GET of an endpoint in consume_service comes to: status 200 with a
\* JSON body, status 200 with a body response.json() cannot parse, another
\* status, or a transport exception.
FetchOutcomes == {"ok", "bad_json", "not_200", "exception"}

\* create_request: the request is stored under an id the requestor draws, then
\* published; the mediator stores it under an id of its own. publish is how
\* the POST ended: "200", or "failed" when it did not reach the mediator, and
\* then the handler raises before it schedules the broadcast.
create_request(args, publish, broadcast) ==
    LET request_id == Uuid(uuid_count + 1)
        request == [ requestor_id |-> RequestorId,
                     category |-> args.category,
                     description |-> args.description,
                     required_format |-> args.required_format,
                     ttl |-> args.ttl ]
    IN /\ active_requests' = Put(active_requests, request_id, request)
       /\ IF publish = "200"
          THEN /\ publish_request(request, Uuid(uuid_count + 2))
               /\ uuid_count' = uuid_count + 2
               /\ broadcast_tasks' =
                      IF broadcast
                      THEN Append(broadcast_tasks,
                                  [ request_id |-> request_id,
                                    request |-> request ])
                      ELSE broadcast_tasks
          ELSE /\ uuid_count' = uuid_count + 1
               /\ UNCHANGED <<requests, timers, transactions,
                              broadcast_tasks>>
       /\ last' = [ op |-> "create_request", request_id |-> request_id,
                    status |-> IF publish = "200" THEN "200" ELSE "500" ]
       /\ UNCHANGED <<bots, services, now, stored_at, request_responses,
                      consume_tasks, provider_vars, started, deleting, orchestrator_vars,
                   loop_vars>>

evaluate_offer_format_checked(offer, original_request) ==
    IF offer.can_fulfill /\ offer.proposed_format = original_request.required_format
    THEN [accepted |-> TRUE, message |-> "Offer accepted"]
    ELSE [ accepted |-> FALSE,
           message |-> "Offer rejected - provider cannot fulfill requirements" ]

evaluate_offer(offer, original_request) ==
    IF offer.can_fulfill
    THEN [accepted |-> TRUE, message |-> "Offer accepted"]
    ELSE [ accepted |-> FALSE,
           message |-> "Offer rejected - provider cannot fulfill requirements" ]

request_not_found_response_404_text(offer_id) ==
    [ offer_id |-> offer_id, accepted |-> FALSE, modifications |-> None,
      message |-> "Request not found" ]

request_not_found_response(offer_id) ==
    [ offer_id |-> offer_id, accepted |-> FALSE, modifications |-> None,
      message |-> "Request not found or expired" ]

should_consume_any_accepted(evaluation, offer) == evaluation.accepted

\* `if evaluation["accepted"] and offer.proposed_endpoint`
should_consume(evaluation, offer) ==
    evaluation.accepted /\ Truthy(offer.proposed_endpoint)

\* dict.get(key, []) followed by append
AppendTo(d, k, entry) ==
    Put(d, k, Append(IF k \in DOMAIN d THEN d[k] ELSE <<>>, entry))

\* What /offer does to the requestor, and the NegotiationResponse it returns
\* (as response'); both ids it may answer with are drawn with uuid4.
receive_offer_handler(offer, response) ==
    LET request_id == offer.request_id
        offer_id == Uuid(uuid_count + 1)
    IN IF request_id \notin DOMAIN active_requests
       THEN /\ response = request_not_found_response(offer_id)
            /\ UNCHANGED <<active_requests, request_responses, consume_tasks>>
       ELSE LET evaluation ==
                    evaluate_offer(offer, active_requests[request_id])
            IN /\ request_responses' =
                      AppendTo(request_responses, request_id,
                               [ provider_id |-> offer.provider_id,
                                 offer |-> offer,
                                 evaluation |-> evaluation ])
               /\ response = [ offer_id |-> offer_id,
                               accepted |-> evaluation.accepted,
                               modifications |-> None,
                               message |-> evaluation.message ]
               /\ consume_tasks' =
                      IF should_consume(evaluation, offer)
                      THEN Append(consume_tasks,
                                  [ request_id |-> request_id,
                                    provider_id |-> offer.provider_id,
                                    endpoint |-> offer.proposed_endpoint ])
                      ELSE consume_tasks
               /\ UNCHANGED active_requests

\* The NegotiationResponse values /offer can return.
OfferResponses ==
    [ offer_id : {Uuid(uuid_count + 1)}, accepted : BOOLEAN,
      modifications : {None},
      message : { "Request not found or expired", "Request not found",
                  "Offer accepted",
                  "Offer rejected - provider cannot fulfill requirements" } ]

\* A peer posts an offer to /offer.
receive_offer(offer) ==
    \E response \in OfferResponses :
        /\ receive_offer_handler(offer, response)
        /\ uuid_count' = uuid_count + 1
        /\ last' = [ op |-> "receive_offer", offer |-> offer,
                     response |-> response, status |-> "200" ]
        /\ UNCHANGED <<mediator_vars, broadcast_tasks, provider_vars,
                       started, deleting, orchestrator_vars,
                   loop_vars>>

\* The i-th pending consume_service task runs; outcome is how its GET ended.
\* Every failure is caught inside the task.
consume_service(i, outcome) ==
    LET task == consume_tasks[i]
    IN /\ consume_tasks' = [ j \in 1..(Len(consume_tasks) - 1) |->
                               IF j < i THEN consume_tasks[j]
                               ELSE consume_tasks[j + 1] ]
       /\ request_responses' =
              IF outcome = "ok"
              THEN AppendTo(request_responses, task.request_id,
                            [ type |-> "service_data",
                              provider_id |-> task.provider_id,
                              data |-> "data@" \o task.endpoint ])
              ELSE request_responses
       /\ last' = [ op |-> "consume_service", task |-> task,
                    outcome |-> outcome, raised |-> FALSE ]
       /\ UNCHANGED <<mediator_vars, uuid_count, active_requests,
                      broadcast_tasks, provider_vars, started, deleting, orchestrator_vars,
                   loop_vars>>

\* -------------------------------------------------------- the provider bot

\* BotBase.id of the provider: a uuid drawn at construction.
ProviderId == "provider-1"

capabilities == {"finance"}

\* `ttl=3600  # 1 hour TTL by default`
DefaultTTL == 3600

\* The requestor ids of the model, with their characters.
RequestorIdChars ==
    [ r \in { "requestor-1", "requestor-2", "demo-requestor-id",
               "demo-orchestrator" } |->
        CASE r = "requestor-1" ->
               << "r", "e", "q", "u", "e", "s", "t", "o", "r", "-", "1" >>
          [] r = "requestor-2" ->
               << "r", "e", "q", "u", "e", "s", "t", "o", "r", "-", "2" >>
          [] r = "demo-requestor-id" ->
               << "d", "e", "m", "o", "-", "r", "e", "q", "u", "e", "s", "t",
                  "o", "r", "-", "i", "d" >>
          [] r = "demo-orchestrator" ->
               << "d", "e", "m", "o", "-", "o", "r", "c", "h", "e", "s", "t",
                  "r", "a", "t", "o", "r" >> ]

DemoMarker == << "d", "e", "m", "o", "-" >>

\* str.startswith
StartsWith(str, prefix) ==
    Len(str) >= Len(prefix) /\ SubSeq(str, 1, Len(prefix)) = prefix

is_demo_requestor_never(request) == FALSE

\* `request.requestor_id.startswith("demo-")`
is_demo_requestor(request) ==
    StartsWith(RequestorIdChars[request.requestor_id], DemoMarker)

\* The ServiceRequest bodies the demo scripts post to the mediator's
\* /requests/publish.
PublishedDemoRequests ==
    [ requestor_id : {"demo-requestor-id"}, category : {"finance"},
      description : {"AAPL stock price"}, required_format : {"json"},
      ttl : {NoneInt} ]

\* The ServiceRequest bodies the orchestrator's distribute_request posts to
\* the provider's /request.
DistributedDemoRequests ==
    [ requestor_id : {"demo-orchestrator"}, category : {"finance", "ai"},
      description : {"AAPL stock price"}, required_format : {"json"},
      ttl : {NoneInt} ]

\* Bot.get_bot_info() of the two bots.
ProviderInfo ==
    [ id |-> ProviderId, name |-> "provider", type |-> "provider",
      capabilities |-> capabilities ]

RequestorInfo ==
    [ id |-> RequestorId, name |-> "requestor", type |-> "requestor",
      capabilities |-> {} ]

\* The hash of a dynamic endpoint stored without one.
NoHash == None

\* f"{self.api_endpoint}/services/{service_id}"
Endpoint(service_id) == "http://provider-1/services/" \o service_id

EndpointIds == { dynamic_endpoints[i].id : i \in DOMAIN dynamic_endpoints }

\* self.dynamic_endpoints[service_id] = entry: a new key goes last, a key
\* already there keeps its place.
SetEndpoint(service_id, request, hash) ==
    LET entry == [ id |-> service_id, request |-> request,
                   created_at |-> now, hash |-> hash ]
    IN IF service_id \in EndpointIds
       THEN [ i \in DOMAIN dynamic_endpoints |->
                IF dynamic_endpoints[i].id = service_id THEN entry
                ELSE dynamic_endpoints[i] ]
       ELSE Append(dynamic_endpoints, entry)

\* The first loop of _find_matching_service: the first local endpoint whose
\* hash is the request's, or None.
local_match(request_hash) ==
    LET hits == { i \in DOMAIN dynamic_endpoints :
                    dynamic_endpoints[i].hash = request_hash }
    IN IF hits = {} THEN None
       ELSE dynamic_endpoints[CHOOSE i \in hits : \A j \in hits : i <= j].id

\* GET /services?category=..&provider_id=.. of the mediator
get_services(category, provider_id) ==
    { s \in DOMAIN services :
        /\ services[s].category = category
        /\ services[s].provider_id = provider_id }

\* GET of a service's endpoint answers 200: the provider's own
\* /services/{service_id} route finds the id among its dynamic endpoints.
probe_ok(endpoint) == \E id \in EndpointIds : endpoint = Endpoint(id)

\* The services the second loop of _find_matching_service may return: one of
\* the mediator's that answers 200; which one depends on the order of the
\* listing and on which probes fail in transport.
mediator_matches(request) ==
    { s \in get_services(request.category, ProviderId) :
        probe_ok(services[s].endpoint) }

\* A process_request task as it is created: nothing has run yet. after is
\* history: the tasks that had returned when this one began to run.
NewTask(request, request_id) ==
    [ request |-> request, request_id |-> request_id, pc |-> "start",
      after |-> {},
      request_key |-> None, can_fulfill |-> FALSE, request_hash |-> NoHash,
      service_id |-> None, endpoint |-> None, mode |-> "",
      offer |-> <<>>, sent |-> FALSE, response |-> <<>>, notified |-> "",
      retry_count |-> 0, attempts |-> <<>>, waits |-> 0 ]

SetTask(i, task) == [tasks EXCEPT ![i] = task]

Step(op, i) == [op |-> op, pc |-> tasks[i].pc]

\* The ServiceNotification every branch of the provider builds.
notification_of(task) ==
    [ service_id |-> task.service_id, provider_id |-> ProviderId,
      requestor_id |-> task.request.requestor_id,
      endpoint |-> task.endpoint, category |-> task.request.category,
      ttl |-> SomeInt(DefaultTTL) ]

\* start(): register_with_mediator, then the poll loop and the server run.
\* outcome is how the registration POST ended.
start(info, outcome) ==
    /\ info.id \notin started
    /\ started' = started \cup {info.id}
    /\ IF outcome = "200"
       THEN /\ bots' = Put(bots, info.id, info)
            /\ transactions' =
                   log_transaction("bot_registration", [bot_id |-> info.id])
       ELSE UNCHANGED <<bots, transactions>>
    /\ last' = [op |-> "start", id |-> info.id, status |-> outcome]
    /\ UNCHANGED <<services, requests, timers, now, stored_at, uuid_count,
                   requestor_vars, provider_vars, deleting,
                   orchestrator_vars,
                   loop_vars>>

\* /requests/publish posted by a peer.
publish_demo_request(request) ==
    /\ publish_request(request, Uuid(uuid_count + 1))
    /\ uuid_count' = uuid_count + 1
    /\ last' = [op |-> "publish_request", status |-> "200"]
    /\ UNCHANGED <<bots, services, now, stored_at, requestor_vars,
                   provider_vars, started, deleting, orchestrator_vars,
                   loop_vars>>

\* /request of the provider: processing is scheduled in the background.
receive_request(request) ==
    /\ tasks' = Append(tasks, NewTask(request, None))
    /\ last' = [op |-> "receive_request", status |-> "200"]
    /\ UNCHANGED <<mediator_vars, uuid_count, requestor_vars,
                   provider_active_requests, dynamic_endpoints, started, deleting, orchestrator_vars,
                   loop_vars>>

\* The i-th pending broadcast_request task runs: it posts the request to
\* every provider bot the mediator lists; delivered is whether the POST to
\* the provider got through.
broadcast_request(i, delivered) ==
    LET listed == ProviderId \in DOMAIN bots /\ bots[ProviderId].type = "provider"
    IN /\ broadcast_tasks' = [ j \in 1..(Len(broadcast_tasks) - 1) |->
                                 IF j < i THEN broadcast_tasks[j]
                                 ELSE broadcast_tasks[j + 1] ]
       /\ tasks' = IF listed /\ delivered
                   THEN Append(tasks, NewTask(broadcast_tasks[i].request, None))
                   ELSE tasks
       /\ last' = [op |-> "broadcast_request", status |-> ""]
       /\ UNCHANGED <<mediator_vars, uuid_count, active_requests,
                      request_responses, consume_tasks,
                      provider_active_requests, dynamic_endpoints, started, deleting, orchestrator_vars,
                   loop_vars>>

RECURSIVE TasksFor(_)
\* One task per request id of the set, in the order of the listing.
TasksFor(ids) ==
    IF ids = {} THEN <<>>
    ELSE LET request_id == CHOOSE x \in ids : TRUE
         IN <<NewTask(requests[request_id], request_id)>>
                \o TasksFor(ids \ {request_id})

\* The request ids a poll has not yet handed to process_request.
unseen_requests ==
    { request_id \in DOMAIN requests :
        request_id \notin DOMAIN provider_active_requests }

\* One round of poll_for_requests whose GET /requests answered 200. The tasks
\* of the round before have run up to their first await in the 5 seconds
\* the loop slept.
poll_for_requests ==
    /\ \A i \in DOMAIN tasks : tasks[i].pc # "start"
    /\ unseen_requests # {}
    /\ tasks' = tasks \o TasksFor(unseen_requests)
    /\ last' = [op |-> "poll_for_requests", status |-> ""]
    /\ UNCHANGED <<mediator_vars, uuid_count, requestor_vars,
                   provider_active_requests, dynamic_endpoints, started, deleting, orchestrator_vars,
                   loop_vars>>

\* The refresh branch of process_request up to its notify_service call.
refreshed(task, service_id, endpoint, request_hash) ==
    [ task EXCEPT !.pc = "notify", !.mode = "refresh",
                  !.service_id = service_id, !.endpoint = endpoint,
                  !.request_hash = request_hash ]

\* process_request from its entry to its first await on the network: the key
\* check, the capability check, the evaluation (ai_can_fulfill is the
\* "can_fulfill" the model's answer carries), the fingerprint and the local
\* loop of _find_matching_service.
process_request_start(i, ai_can_fulfill) ==
    LET task == tasks[i]
        request == task.request
        request_key == IF Truthy(task.request_id) THEN task.request_id
                       ELSE request.requestor_id \o request.description
        keyed == [task EXCEPT !.request_key = request_key,
                              !.after = { k \in DOMAIN tasks :
                                            tasks[k].pc = "done" }]
        can_fulfill ==
            IF /\ request.requestor_id = "demo-orchestrator"
               /\ request.category \in capabilities
            THEN TRUE
            ELSE ai_can_fulfill
        request_hash == create_request_hash(request)
        existing == local_match(request_hash)
    IN /\ task.pc = "start"
       /\ last' = Step("process_request", i)
       /\ UNCHANGED <<mediator_vars, uuid_count, requestor_vars, started, deleting, orchestrator_vars,
                   loop_vars>>
       /\ IF request_key \in DOMAIN provider_active_requests
          THEN /\ tasks' = SetTask(i, [keyed EXCEPT !.pc = "done"])
               /\ UNCHANGED <<provider_active_requests, dynamic_endpoints>>
          ELSE /\ provider_active_requests' =
                      Put(provider_active_requests, request_key, request)
               /\ IF request.category \notin capabilities \/ ~can_fulfill
                  THEN /\ tasks' = SetTask(i, [keyed EXCEPT !.pc = "done"])
                       /\ UNCHANGED dynamic_endpoints
                  ELSE IF existing # None
                  THEN /\ dynamic_endpoints' =
                              SetEndpoint(existing, request, request_hash)
                       /\ tasks' = SetTask(i,
                              refreshed([keyed EXCEPT !.can_fulfill = TRUE],
                                        existing, Endpoint(existing),
                                        request_hash))
                  ELSE /\ tasks' = SetTask(i,
                              [keyed EXCEPT !.can_fulfill = TRUE,
                                            !.request_hash = request_hash,
                                            !.pc = "query"])
                       /\ UNCHANGED dynamic_endpoints

\* process_request from the mediator's answer in _find_matching_service to the
\* next await: found is the service the second loop returned, or None. With a
\* match the service is refreshed; without one the offer is built, a service
\* id drawn, the endpoint stored with the hash, and the demo check made.
process_request_matched(i, found) ==
    LET task == tasks[i]
        request == task.request
        service_id == Uuid(uuid_count + 1)
        endpoint == Endpoint(service_id)
        offer == [ request_id |-> task.request_key,
                   provider_id |-> ProviderId, can_fulfill |-> TRUE,
                   proposed_endpoint |-> endpoint,
                   proposed_format |-> request.required_format,
                   constraints |-> None, ttl |-> SomeInt(DefaultTTL) ]
        created == [ task EXCEPT !.service_id = service_id,
                                 !.endpoint = endpoint,
                                 !.offer = <<offer>> ]
    IN /\ task.pc = "query"
       /\ UNCHANGED <<mediator_vars, requestor_vars, provider_active_requests,
                      started, deleting, orchestrator_vars,
                   loop_vars>>
       /\ IF found # None
          THEN /\ dynamic_endpoints' =
                      SetEndpoint(found, request, task.request_hash)
               /\ tasks' = SetTask(i,
                      refreshed(task, found, services[found].endpoint,
                                task.request_hash))
               /\ UNCHANGED uuid_count
          ELSE /\ uuid_count' = uuid_count + 1
               /\ dynamic_endpoints' =
                      SetEndpoint(service_id, request, task.request_hash)
               /\ tasks' = SetTask(i,
                      IF is_demo_requestor(request)
                      THEN [created EXCEPT !.pc = "notify", !.mode = "demo"]
                      ELSE [created EXCEPT !.pc = "lookup"])

find_matching_service(i, found) ==
    /\ process_request_matched(i, found)
    /\ last' = Step("process_request", i)

\* The second loop of _find_matching_service, candidate by candidate.
\* registry is how GET /services ended, listing the services it brought in
\* their order, probes how the GET of each candidate's endpoint ended.
ProbeOutcomes == {"200", "500", "exception"}

RegistryOutcomes == {"200", "500", "exception"}

mediator_match_first_only(registry, listing, probes) ==
    IF registry = "200" /\ listing # <<>> /\ probes[1] = "200"
    THEN listing[1] ELSE None

RECURSIVE first_reachable(_, _, _)
first_reachable(listing, probes, k) ==
    IF k > Len(listing) THEN None
    ELSE IF probes[k] = "200" THEN listing[k]
    ELSE first_reachable(listing, probes, k + 1)

mediator_match(registry, listing, probes) ==
    IF registry = "200" THEN first_reachable(listing, probes, 1) ELSE None

\* The orders in which the mediator may list a set of services.
Orderings(ids) ==
    {l \in [1..Cardinality(ids) -> ids] :
        \A a, b \in 1..Cardinality(ids) : a # b => l[a] # l[b]}

\* The ways the probes of a listing may end: a 200 needs the endpoint to be
\* one the provider serves.
ProbesOf(listing) ==
    {p \in [1..Len(listing) -> ProbeOutcomes] :
        \A k \in 1..Len(listing) :
            p[k] = "200" => probe_ok(services[listing[k]].endpoint)}

\* process_request from the mediator's answer in _find_matching_service to
\* the next await, with the query and the probes spelled out.
query_services(i, registry, listing, probes) ==
    LET found == mediator_match(registry, listing, probes)
    IN  /\ process_request_matched(i, found)
        /\ last' = [op |-> "find_matching_service", pc |-> "query",
                    task |-> i, registry |-> registry, listing |-> listing,
                    probes |-> probes, found |-> found]

\* get_bot_info_by_id(request.requestor_id) has answered: reached is whether
\* the GET got through to the mediator. Without a bot the service is
\* registered anyway.
get_bot_info_by_id(i, reached) ==
    LET task == tasks[i]
        requestor_bot == reached /\ task.request.requestor_id \in DOMAIN bots
    IN /\ task.pc = "lookup"
       /\ tasks' = SetTask(i,
              IF requestor_bot THEN [task EXCEPT !.pc = "offer"]
              ELSE [task EXCEPT !.pc = "notify", !.mode = "not_found"])
       /\ last' = Step("process_request", i)
       /\ UNCHANGED <<mediator_vars, uuid_count, requestor_vars,
                      provider_active_requests, dynamic_endpoints, started, deleting, orchestrator_vars,
                   loop_vars>>

\* The POST of the offer to the requestor's /offer has ended. "200": the
\* requestor handled it, and an accepted offer enters fulfill_request, which
\* stores the endpoint again, now without a hash. "exception": the POST
\* raised and the service is registered anyway.
send_offer(i, outcome) ==
    LET task == tasks[i]
        offer == task.offer[1]
    IN /\ task.pc = "offer"
       /\ last' = Step("process_request", i)
       /\ UNCHANGED <<mediator_vars, broadcast_tasks,
                      provider_active_requests, started, deleting, orchestrator_vars,
                   loop_vars>>
       /\ IF outcome = "200"
          THEN \E response \in OfferResponses :
                  /\ receive_offer_handler(offer, response)
                  /\ uuid_count' = uuid_count + 1
                  /\ IF response.accepted
                     THEN /\ dynamic_endpoints' =
                                 SetEndpoint(task.service_id, task.request,
                                             NoHash)
                          /\ tasks' = SetTask(i,
                                 [task EXCEPT !.sent = TRUE,
                                              !.response = <<response>>,
                                              !.pc = "notify",
                                              !.mode = "fulfill"])
                     ELSE /\ tasks' = SetTask(i,
                                 [task EXCEPT !.sent = TRUE,
                                              !.response = <<response>>,
                                              !.pc = "done"])
                          /\ UNCHANGED dynamic_endpoints
          ELSE /\ tasks' = SetTask(i,
                      [task EXCEPT !.sent = TRUE, !.pc = "notify",
                                   !.mode = "error"])
               /\ UNCHANGED <<uuid_count, active_requests, request_responses,
                              consume_tasks, dynamic_endpoints>>

\* BotBase.notify_service has returned: "ok" when a POST of /services/notify
\* answered 200, "failed" when none of its max_retries attempts got through.
\* fulfill_request goes on to send the data; every other branch returns.
notify_mediator(i, outcome) ==
    LET task == tasks[i]
    IN /\ task.pc = "notify"
       /\ IF outcome = "ok"
          THEN /\ notify_store(notification_of(task), task.service_id)
          ELSE UNCHANGED <<services, timers, transactions, stored_at>>
       /\ tasks' = SetTask(i,
              [task EXCEPT !.notified = outcome,
                           !.pc = IF task.mode = "fulfill" THEN "send_data"
                                  ELSE "done"])
       /\ last' = Step("process_request", i)
       /\ UNCHANGED <<bots, requests, now, uuid_count, requestor_vars,
                      provider_active_requests, dynamic_endpoints, started, deleting, orchestrator_vars,
                   loop_vars>>

\* BotBase.notify_service step by step.  The loop runs while retry_count is
\* below max_retries.
max_retries == 3

may_retry_inclusive(retry_count) == retry_count <= max_retries

may_retry(retry_count) == retry_count < max_retries

\* What one POST of /services/notify comes to: answered 200, answered with
\* an error status (404 for a provider the mediator does not know), not
\* delivered (exception), or delivered and stored with the answer lost (the
\* 10 s timeout, an exception too).
AttemptOutcomes == {"200", "404", "500", "exception", "timeout"}

\* One pass of the loop body up to the sleep: the POST is made and answered.
\* A 200 returns True; everything else counts a retry and goes to sleep.
\* attempts is the history of the outcomes.
notify_attempt(i, outcome) ==
    LET task == tasks[i]
        tried == [task EXCEPT !.attempts = Append(@, outcome)]
    IN /\ task.pc = "notify"
       /\ IF outcome \in {"200", "timeout"}
          THEN notify_store(notification_of(task), task.service_id)
          ELSE UNCHANGED <<services, timers, transactions, stored_at>>
       /\ tasks' = SetTask(i,
              IF outcome = "200"
              THEN [tried EXCEPT !.notified = "ok",
                                 !.pc = IF task.mode = "fulfill"
                                        THEN "send_data" ELSE "done"]
              ELSE [tried EXCEPT !.retry_count = @ + 1, !.pc = "backoff"])
       /\ last' = Step("notify_service", i)
       /\ UNCHANGED <<bots, requests, now, uuid_count, requestor_vars,
                      provider_active_requests, dynamic_endpoints, started, deleting, orchestrator_vars,
                   loop_vars>>

\* asyncio.sleep(1) is over and the loop condition is tested again: another
\* pass, or return False.
notify_backoff(i) ==
    LET task == tasks[i]
        waited == [task EXCEPT !.waits = @ + 1]
    IN /\ task.pc = "backoff"
       /\ tasks' = SetTask(i,
              IF may_retry(task.retry_count)
              THEN [waited EXCEPT !.pc = "notify"]
              ELSE [waited EXCEPT !.notified = "failed",
                                  !.pc = IF task.mode = "fulfill"
                                         THEN "send_data" ELSE "done"])
       /\ last' = Step("notify_service", i)
       /\ UNCHANGED <<mediator_vars, uuid_count, requestor_vars,
                      provider_active_requests, dynamic_endpoints, started, deleting, orchestrator_vars,
                   loop_vars>>

\* /service-data/{request_id} of the requestor: what it does to the
\* requestor's responses; an unknown id is answered 404.
receive_service_data(request_id, data) ==
    IF request_id \notin DOMAIN active_requests
    THEN request_responses
    ELSE AppendTo(request_responses, request_id,
                  [type |-> "direct_data", data |-> data])

\* The end of fulfill_request: the data is posted to the requestor's
\* /service-data/{service_id}; delivered is whether the requestor's bot info
\* was found and the POST got through. Every failure is caught.
send_data(i, delivered) ==
    LET task == tasks[i]
    IN /\ task.pc = "send_data"
       /\ request_responses' =
              IF delivered /\ task.request.requestor_id \in DOMAIN bots
              THEN receive_service_data(task.service_id,
                                        "data@" \o task.endpoint)
              ELSE request_responses
       /\ tasks' = SetTask(i, [task EXCEPT !.pc = "done"])
       /\ last' = Step("process_request", i)
       /\ UNCHANGED <<mediator_vars, uuid_count, active_requests,
                      consume_tasks, broadcast_tasks,
                      provider_active_requests, dynamic_endpoints, started, deleting, orchestrator_vars,
                   loop_vars>>

\* A requestor bot of another implementation, registered with the mediator
\* under its own id; its /offer answers as it sees fit.
PeerId == "requestor-2"

PeerInfo ==
    [ id |-> PeerId, name |-> "peer", type |-> "requestor",
      capabilities |-> {} ]

\* The ServiceRequest bodies posted to the provider's /request on behalf of
\* the peer and of the orchestrator: two wordings of one finance request and
\* a finance request for another symbol.
DeliveredRequests ==
    [ requestor_id : {PeerId}, category : {"finance"},
      description : {"AAPL stock price", "aapl  stock, price!"},
      required_format : {"json"}, ttl : {NoneInt} ]
    \cup
    [ requestor_id : {"demo-orchestrator"}, category : {"finance"},
      description : {"aapl  stock, price!", "MSFT stock price"},
      required_format : {"json"}, ttl : {NoneInt} ]

\* The POST of the offer to the peer's /offer has ended: the peer accepted it
\* (the task enters fulfill_request, which stores the endpoint again without
\* a hash), rejected it, or the POST raised.
send_offer_to_peer(i, outcome) ==
    LET task == tasks[i]
        response == [ offer_id |-> "peer-offer",
                      accepted |-> outcome = "accepted",
                      modifications |-> None, message |-> None ]
    IN /\ task.pc = "offer"
       /\ last' = Step("process_request", i)
       /\ UNCHANGED <<mediator_vars, uuid_count, requestor_vars,
                      provider_active_requests, started, deleting, orchestrator_vars,
                   loop_vars>>
       /\ IF outcome = "accepted"
          THEN /\ dynamic_endpoints' =
                      SetEndpoint(task.service_id, task.request, NoHash)
               /\ tasks' = SetTask(i,
                      [task EXCEPT !.sent = TRUE,
                                   !.response = <<response>>,
                                   !.pc = "notify", !.mode = "fulfill"])
          ELSE /\ tasks' = SetTask(i,
                      IF outcome = "rejected"
                      THEN [task EXCEPT !.sent = TRUE,
                                        !.response = <<response>>,
                                        !.pc = "done"]
                      ELSE [task EXCEPT !.sent = TRUE, !.pc = "notify",
                                        !.mode = "error"])
               /\ UNCHANGED dynamic_endpoints

\* -------------------------------------------------------- the orchestrator
\* A JSON field that may be missing, a number, a string or an array.  Numbers
\* that the code compares with 0.7 are kept in tenths.
Absent == [t |-> "absent", v |-> 0, items |-> <<>>]
Number(n) == [t |-> "number", v |-> n, items |-> <<>>]
String == [t |-> "string", v |-> 0, items |-> <<>>]
Array(items) == [t |-> "array", v |-> 0, items |-> items]

\* The outcome of a block of code: it raised, or it ran to its end with a
\* value.
Raised == [raised |-> TRUE, value |-> <<>>]
Value(v) == [raised |-> FALSE, value |-> v]

\* The sequences over a set with at most n members.
RECURSIVE SeqsUpTo(_, _)
SeqsUpTo(S, n) ==
    IF n = 0 THEN {<<>>}
    ELSE LET shorter == SeqsUpTo(S, n - 1)
         IN  shorter \cup {Append(s, x) : s \in {t \in shorter : Len(t) = n - 1}, x \in S}

\* The provider bots the mediator may list, with their capabilities.
ProviderPool ==
    { [id |-> "p1", capabilities |-> {"finance"}],
      [id |-> "p2", capabilities |-> {"finance", "ai"}],
      [id |-> "p3", capabilities |-> {"finance"}],
      [id |-> "p4", capabilities |-> {"ai"}] }

\* provider_cache is a dict keyed by id: its values are pairwise distinct and
\* keep their insertion order.
ProviderCaches ==
    {c \in SeqsUpTo(ProviderPool, MaxProviders) :
        \A i, j \in 1..Len(c) : i # j => c[i].id # c[j].id}

\* What GET /bots?type=provider brings: nothing (non-200 or an exception) or
\* a list of providers.
CacheAnswers == {<<>>} \cup {<<c>> : c \in ProviderCaches}

refresh_provider_cache(cached, answer) ==
    IF answer = <<>> THEN cached ELSE answer[1]

\* The text generate_chat_completion returns.  json is the payload that
\* json.loads finds in it, if any.
RateLimitedText == [text |-> "Rate limit exceeded. Please try again later.", json |-> <<>>]
UnreachableText == [text |-> "An error occurred while generating content.", json |-> <<>>]
ProseText == [text |-> "prose", json |-> <<>>]
JsonText(value) == [text |-> "json", json |-> <<value>>]

\* A parsed JSON value: an object with the one field the caller reads (or
\* without it), or something that is not an object.
Object(field) == [t |-> "object", field |-> field, error |-> FALSE]
NonObject == [t |-> "array", field |-> Absent, error |-> FALSE]
ErrorObject == [t |-> "object", field |-> Absent, error |-> TRUE]

generate_structured_content(response_text) ==
    IF response_text.json = <<>> THEN ErrorObject ELSE response_text.json[1]

\* result.get(key, []) and the iteration over it.
get_array(result) ==
    IF result.t # "object" THEN Raised
    ELSE IF result.field.t = "absent" THEN Value(<<>>)
    ELSE IF result.field.t = "array" THEN Value(result.field.items)
    ELSE Raised

\* The fields of the oracle's answer that enhance_request reads.
\* enhanced_description is missing, a string, a dict with or without a
\* 'value' key, or a number; repr is what str() makes of it.
NoDescription == [t |-> "absent", value |-> <<>>, repr |-> ""]
StringDescription(s) == [t |-> "string", value |-> <<>>, repr |-> s]
DictDescription(value) ==
    [t |-> "dict", value |-> value, repr |-> "{'type': 'string'}"]
NumberDescription == [t |-> "number", value |-> <<>>, repr |-> "5"]

\* additional_parameters is missing, a dict or a list.
NoParameters == [t |-> "absent", items |-> EmptyDict]
DictParameters(items) == [t |-> "dict", items |-> items]
ListParameters == [t |-> "array", items |-> EmptyDict]

Enhancement(enhanced_description, additional_parameters) ==
    [t |-> "object", field |-> Absent, error |-> FALSE,
     enhanced_description |-> enhanced_description,
     additional_parameters |-> additional_parameters]

\* {**a, **b}
merge(a, b) ==
    [k \in DOMAIN a \cup DOMAIN b |-> IF k \in DOMAIN b THEN b[k] ELSE a[k]]

\* What a call leaves behind: the object it was given as it is afterwards,
\* the value it returned, and whether the returned object is the given one.
enhanced_request_in_place(request, enhanced_description, additional_params) ==
    LET updated == [request EXCEPT
                       !.description = enhanced_description,
                       !.parameters = merge(request.parameters, additional_params)]
    IN  [request |-> updated, returned |-> updated, is_input |-> TRUE]

enhanced_request(request, enhanced_description, additional_params) ==
    [request |-> request,
     returned |-> [requestor_id |-> request.requestor_id,
                   category |-> request.category,
                   description |-> enhanced_description,
                   required_format |-> request.required_format,
                   response_schema |-> request.response_schema,
                   parameters |-> merge(request.parameters, additional_params),
                   ttl |-> request.ttl],
     is_input |-> FALSE]

enhance_request(request, response_text) ==
    LET response == generate_structured_content(response_text)
        described == /\ response.t = "object"
                     /\ "enhanced_description" \in DOMAIN response
                     /\ response.enhanced_description.t # "absent"
        given == response.enhanced_description
        enhanced_description ==
            IF given.t = "dict" /\ given.value # <<>> THEN given.value[1]
            ELSE given.repr
        additional_params ==
            IF response.additional_parameters.t = "dict"
            THEN response.additional_parameters.items
            ELSE EmptyDict
    IN  IF described
        THEN enhanced_request(request, enhanced_description, additional_params)
        ELSE [request |-> request, returned |-> request, is_input |-> TRUE]

enhance(request, response_text) ==
    /\ last' = [op |-> "enhance_request", request |-> request,
                response_text |-> response_text,
                outcome |-> enhance_request(request, response_text)]
    /\ UNCHANGED <<mediator_vars, uuid_count, requestor_vars, provider_vars,
                   started, deleting, orchestrator_vars,
                   loop_vars>>

\* The entries of "matches".
MatchProviderIds == {"p1", "p2", "p9"}
MatchConfidences == {Number(7), Number(9), Absent, String}
MatchItems ==
    {[t |-> "object", provider_id |-> p, confidence |-> c] :
        p \in MatchProviderIds, c \in MatchConfidences}
    \cup {[t |-> "string", provider_id |-> "", confidence |-> Absent]}

SelectionTexts ==
    {RateLimitedText, UnreachableText, ProseText, JsonText(NonObject),
     JsonText(Object(Absent)), JsonText(Object(Number(1)))}
    \cup {JsonText(Object(Array(items))) : items \in SeqsUpTo(MatchItems, MaxMatches)}

\* m.get("confidence", 0) > 0.7
confident_inclusive(m) == m.confidence.t = "number" /\ m.confidence.v >= 7

confident(m) == m.confidence.t = "number" /\ m.confidence.v > 7

\* m.get(...) needs a dict, and > needs a number on its left.
match_readable(m) == m.t = "object" /\ m.confidence.t \in {"number", "absent"}

good_matches(matches) ==
    IF \E k \in 1..Len(matches) : ~match_readable(matches[k])
    THEN Raised
    ELSE Value(SelectSeq(matches, confident))

all_cached_providers(category, cached) == cached

category_matching_providers(category, cached) ==
    LET matching(p) == category \in p.capabilities
    IN  SelectSeq(cached, matching)

few_enough_below_two(matching) == Len(matching) < 2

few_enough(matching) == Len(matching) <= 2

\* any(m.get("provider_id") == p.id for m in good_matches)
named_by_any(matches, p) == TRUE

named_by(matches, p) ==
    \E k \in 1..Len(matches) : matches[k].provider_id = p.id

\* The try block of find_suitable_providers: it returns a list, falls
\* through (<<>> as "returned") or raises.
select_with_oracle(matching, result) ==
    LET matches == get_array(result)
        good == IF matches.raised THEN Raised ELSE good_matches(matches.value)
        named(p) == named_by(good.value, p)
    IN  IF good.raised THEN Raised
        ELSE IF good.value # <<>> THEN Value(<<SelectSeq(matching, named)>>)
        ELSE Value(<<>>)

find_suitable_providers(category, cached, answer, response_text) ==
    LET cache == IF cached = <<>>
                 THEN refresh_provider_cache(cached, answer)
                 ELSE cached
        matching == category_matching_providers(category, cache)
        attempt == select_with_oracle(matching, generate_structured_content(response_text))
    IN  IF matching = <<>>
        THEN [provider_cache |-> cache, oracle_calls |-> 0, raised |-> FALSE,
              providers |-> <<>>]
        ELSE IF few_enough(matching)
        THEN [provider_cache |-> cache, oracle_calls |-> 0, raised |-> FALSE,
              providers |-> matching]
        ELSE IF ~attempt.raised /\ attempt.value # <<>>
        THEN [provider_cache |-> cache, oracle_calls |-> 1, raised |-> FALSE,
              providers |-> attempt.value[1]]
        ELSE [provider_cache |-> cache, oracle_calls |-> 1, raised |-> FALSE,
              providers |-> matching]

select_providers(category, cached, answer, response_text) ==
    /\ last' = [op |-> "find_suitable_providers", category |-> category,
                response_text |-> response_text,
                selection |-> find_suitable_providers(category, cached,
                                                      answer, response_text)]
    /\ UNCHANGED <<mediator_vars, uuid_count, requestor_vars, provider_vars, started, deleting, orchestrator_vars,
                   loop_vars>>

\* The responses handed to rank_responses: dicts with provider_id,
\* service_id and data; quality_score and quality_reasoning are the keys
\* rank_responses may add.
Response(service_id, provider_id) ==
    [service_id |-> service_id, provider_id |-> provider_id,
     quality_score |-> Absent, quality_reasoning |-> Absent]

ResponsePool ==
    {Response("s1", "pA"), Response("s2", "pB"), Response("s3", "pA")}

ResponseLists == SeqsUpTo(ResponsePool, MaxResponses)

\* The entries of "rankings".
RankServiceIds == {"s1", "s2", "s9"}
RankScores == {Number(8), Absent, String}
Reasoning(text) == [t |-> "text", v |-> 0, items |-> <<text>>]
RankReasonings == {Reasoning("good"), Absent}
RankItems ==
    {[t |-> "object", service_id |-> s, quality_score |-> q, reasoning |-> r] :
        s \in RankServiceIds, q \in RankScores, r \in RankReasonings}
    \cup {[t |-> "string", service_id |-> "", quality_score |-> Absent,
           reasoning |-> Absent]}

RankingTexts ==
    {RateLimitedText, UnreachableText, ProseText, JsonText(NonObject),
     JsonText(Object(Absent)), JsonText(Object(Number(1)))}
    \cup {JsonText(Object(Array(items))) : items \in SeqsUpTo(RankItems, MaxRankings)}

NoReasoning == Reasoning("")

get_default(field, default) == default

\* rank.get(key, default)
get_or(field, default) == IF field.t = "absent" THEN default ELSE field

\* The index of the first response with this service id, 0 when there is
\* none (the inner for ... break).
first_with(responses, service_id) ==
    IF \E i \in 1..Len(responses) : responses[i].service_id = service_id
    THEN CHOOSE i \in 1..Len(responses) :
             /\ responses[i].service_id = service_id
             /\ \A j \in 1..(i - 1) : responses[j].service_id # service_id
    ELSE 0

\* Lines 474-490: the quality tracking, one ranking entry after the other.
\* An entry that is not a dict, or a score that cannot be added, raises
\* and leaves the tracking as far as it got.
RECURSIVE update_quality(_, _, _, _)
update_quality(rankings, k, responses, quality) ==
    IF k > Len(rankings) THEN [raised |-> FALSE, quality |-> quality]
    ELSE LET rank == rankings[k]
             score == get_or(rank.quality_score, Number(0))
             i == first_with(responses, rank.service_id)
             provider_id == responses[i].provider_id
             entry == IF provider_id \in DOMAIN quality THEN quality[provider_id]
                      ELSE [count |-> 0, total_score |-> 0]
             counted == Put(quality, provider_id, [entry EXCEPT !.count = @ + 1])
         IN  IF rank.t # "object" THEN [raised |-> TRUE, quality |-> quality]
             ELSE IF i = 0 THEN update_quality(rankings, k + 1, responses, quality)
             ELSE IF score.t # "number" THEN [raised |-> TRUE, quality |-> counted]
             ELSE update_quality(rankings, k + 1, responses,
                      Put(quality, provider_id,
                          [entry EXCEPT !.count = @ + 1,
                                        !.total_score = @ + score.v]))

\* Lines 493-500: every ranking entry appends the response it names, with
\* the entry's score and reasoning written into the response.  ranked holds
\* the positions of the appended responses in the input list: the dicts are
\* shared, not copied.
RECURSIVE sort_by_rankings(_, _, _, _)
sort_by_rankings(rankings, k, responses, ranked) ==
    IF k > Len(rankings) THEN [responses |-> responses, ranked |-> ranked]
    ELSE LET rank == rankings[k]
             i == first_with(responses, rank.service_id)
         IN  IF i = 0 THEN sort_by_rankings(rankings, k + 1, responses, ranked)
             ELSE sort_by_rankings(rankings, k + 1,
                      [responses EXCEPT
                          ![i].quality_score = get_or(rank.quality_score, Number(0)),
                          ![i].quality_reasoning = get_or(rank.reasoning, NoReasoning)],
                      Append(ranked, i))

NotEvaluated == Reasoning("Not evaluated")

\* Lines 503-507: the responses no appended response shares the service id
\* of.
RECURSIVE add_unranked(_, _, _)
add_unranked(i, responses, ranked) ==
    IF i > Len(responses) THEN [responses |-> responses, ranked |-> ranked]
    ELSE IF \E k \in 1..Len(ranked) :
                responses[ranked[k]].service_id = responses[i].service_id
    THEN add_unranked(i + 1, responses, ranked)
    ELSE add_unranked(i + 1,
             [responses EXCEPT ![i].quality_score = Number(0),
                               ![i].quality_reasoning = NotEvaluated],
             Append(ranked, i))

Identity(n) == [k \in 1..n |-> k]

\* len(responses) <= 1
nothing_to_rank_if_empty(responses) == Len(responses) = 0

nothing_to_rank(responses) == Len(responses) <= 1

\* rank_responses: returned is the list it returns, as positions in the
\* input list; responses are the input dicts as it leaves them.
rank_responses(responses, quality, response_text) ==
    LET result == generate_structured_content(response_text)
        rankings == get_array(result)
        tracked == update_quality(rankings.value, 1, responses, quality)
        sorted == sort_by_rankings(rankings.value, 1, responses, <<>>)
        all == add_unranked(1, sorted.responses, sorted.ranked)
    IN  IF nothing_to_rank(responses)
        THEN [responses |-> responses, returned |-> Identity(Len(responses)),
              response_quality |-> quality, oracle_calls |-> 0]
        ELSE IF rankings.raised
        THEN [responses |-> responses, returned |-> Identity(Len(responses)),
              response_quality |-> quality, oracle_calls |-> 1]
        ELSE IF tracked.raised
        THEN [responses |-> responses, returned |-> Identity(Len(responses)),
              response_quality |-> tracked.quality, oracle_calls |-> 1]
        ELSE [responses |-> all.responses, returned |-> all.ranked,
              response_quality |-> tracked.quality, oracle_calls |-> 1]

rank(responses, response_text) ==
    LET ranking == rank_responses(responses, response_quality, response_text)
    IN  /\ response_quality' = ranking.response_quality
        /\ last' = [op |-> "rank_responses", responses |-> responses,
                    response_text |-> response_text,
                    before |-> response_quality, ranking |-> ranking]
        /\ UNCHANGED <<mediator_vars, uuid_count, requestor_vars,
                       provider_vars, started, deleting, provider_cache,
                       loop_vars>>

\* The call is over: its arguments and its return value are gone, the
\* aggregate stays.
rank_responses_returned ==
    /\ last.op = "rank_responses"
    /\ last' = Answer("init", None, None, "")
    /\ UNCHANGED <<mediator_vars, uuid_count, requestor_vars, provider_vars,
                   started, deleting, orchestrator_vars,
                   loop_vars>>

\* The two background loops of the provider.  A loop is idle (not yet
\* created), at the test of its while condition, in a round of its body, in
\* the sleep that ends the round, or ended.
\* while self.keep_running:
loop_goes_on_always(flag) == TRUE

loop_goes_on(flag) == flag

\* start() after the registration: both loops are created as tasks.
start_loops ==
    /\ ProviderId \in started
    /\ loops["poll"] = "idle"
    /\ loops' = [loop \in {"poll", "cleanup"} |-> "test"]
    /\ last' = [op |-> "start", id |-> ProviderId, status |-> "loops"]
    /\ UNCHANGED <<mediator_vars, uuid_count, requestor_vars, provider_vars,
                   started, deleting, orchestrator_vars, keep_running>>

\* stop() up to its await: the flag is cleared.  The DELETE /bots/{id} it
\* then sends is the mediator's delete_bot.
stop ==
    /\ ProviderId \in started
    /\ keep_running
    /\ keep_running' = FALSE
    /\ last' = [op |-> "stop", id |-> ProviderId, status |-> ""]
    /\ UNCHANGED <<mediator_vars, uuid_count, requestor_vars, provider_vars,
                   started, deleting, orchestrator_vars, loops>>

\* A loop tests its while condition.
loop_test(loop) ==
    /\ loops[loop] = "test"
    /\ loops' = [loops EXCEPT ![loop] = IF loop_goes_on(keep_running)
                                        THEN "round" ELSE "ended"]
    /\ last' = [op |-> loop, id |-> ProviderId, status |-> "test"]
    /\ UNCHANGED <<mediator_vars, uuid_count, requestor_vars, provider_vars,
                   started, deleting, orchestrator_vars, keep_running>>

\* One round of poll_for_requests: answered is whether GET /requests came
\* back with 200; every request id not yet among the active requests gets
\* a process_request task.  The tasks of the round before have run up to
\* their first await in the 5 seconds the loop slept.
poll_round(answered) ==
    /\ loops["poll"] = "round"
    /\ \A i \in DOMAIN tasks : tasks[i].pc # "start"
    /\ tasks' = IF answered THEN tasks \o TasksFor(unseen_requests) ELSE tasks
    /\ loops' = [loops EXCEPT !["poll"] = "sleep"]
    /\ last' = [op |-> "poll_for_requests", status |-> ""]
    /\ UNCHANGED <<mediator_vars, uuid_count, requestor_vars,
                   provider_active_requests, dynamic_endpoints, started,
                   deleting, orchestrator_vars, keep_running>>

\* One sweep of cleanup_expired_services: the endpoints created more than
\* an hour ago are dropped.
cleanup_sweep ==
    LET kept(entry) == ~(now - entry.created_at > DefaultTTL)
    IN  /\ loops["cleanup"] = "round"
        /\ dynamic_endpoints' = SelectSeq(dynamic_endpoints, kept)
        /\ loops' = [loops EXCEPT !["cleanup"] = "sleep"]
        /\ last' = [op |-> "cleanup_expired_services", status |-> ""]
        /\ UNCHANGED <<mediator_vars, uuid_count, requestor_vars,
                       provider_active_requests, tasks, started, deleting,
                       orchestrator_vars, keep_running>>

\* The sleep that ends a round is over.
loop_wake(loop) ==
    /\ loops[loop] = "sleep"
    /\ loops' = [loops EXCEPT ![loop] = "test"]
    /\ last' = [op |-> loop, id |-> ProviderId, status |-> "wake"]
    /\ UNCHANGED <<mediator_vars, uuid_count, requestor_vars, provider_vars,
                   started, deleting, orchestrator_vars, keep_running>>

Init ==
    /\ keep_running = TRUE
    /\ loops = [loop \in {"poll", "cleanup"} |-> "idle"]
    /\ active_requests = EmptyDict
    /\ request_responses = EmptyDict
    /\ consume_tasks = <<>>
    /\ broadcast_tasks = <<>>
    /\ provider_active_requests = EmptyDict
    /\ dynamic_endpoints = <<>>
    /\ tasks = <<>>
    /\ started = {}
    /\ deleting = <<>>
    /\ response_quality = EmptyDict
    /\ provider_cache = <<>>
    /\ bots = EmptyDict
    /\ services = EmptyDict
    /\ requests = EmptyDict
    /\ transactions = <<>>
    /\ timers = <<>>
    /\ now = 0
    /\ uuid_count = 0
    /\ stored_at = EmptyDict
    /\ last = Answer("init", None, None, "")

\* The service ids a client may name: a fixed one and those drawn so far.
KnownServiceIds == {"s1"} \cup {Uuid(n) : n \in 1..uuid_count}

LogOpen == Len(transactions) < MaxLog

Next ==
    \/ \E bot \in BotInputs : LogOpen /\ register_bot(bot)
    \/ \E bot_id \in BotIds : LogOpen /\ delete_bot(bot_id)
    \/ \E service \in ServiceInputs : LogOpen /\ register_service(service)
    \/ \E service_id \in KnownServiceIds :
           LogOpen /\ delete_service(service_id)
    \/ \E notification \in NotificationInputs :
           LogOpen /\ notify_service(notification)
    \/ \E i \in 1..Len(timers) : expire_service(i)
    \/ now < MaxTime /\ Tick

Spec == Init /\ [][Next]_vars

\* The registry without TTLs: no expiry task is ever scheduled and no time
\* passes, which leaves room for longer runs of registrations.
CascadeOpen == Len(transactions) < MaxLogCascade

NextCascade ==
    \/ \E bot \in BotInputs : CascadeOpen /\ register_bot(bot)
    \/ \E bot_id \in BotIds : CascadeOpen /\ delete_bot(bot_id)
    \/ \E service \in {x \in ServiceInputs : x.ttl = NoneInt} :
           CascadeOpen /\ register_service(service)
    \/ \E service_id \in KnownServiceIds :
           CascadeOpen /\ delete_service(service_id)
    \/ \E notification \in {x \in NotificationInputs : x.ttl = NoneInt} :
           CascadeOpen /\ notify_service(notification)

SpecCascade == Init /\ [][NextCascade]_vars

\* The requestor bot, its peers posting arbitrary offers; no request is
\* broadcast.
\* Each uuid drawn so far named a request (the requestor's id, the mediator's
\* id) or an offer.
OffersReceived ==
    uuid_count - Cardinality(DOMAIN active_requests) - Cardinality(DOMAIN requests)

NextRequestor ==
    \/ \E info \in {RequestorInfo} : start(info, "200")
    \/ \E args \in RequestArgs, publish \in {"200", "failed"} :
           /\ RequestorId \in started
           /\ Cardinality(DOMAIN active_requests) < MaxRequests
           /\ create_request(args, publish, FALSE)
    \/ \E offer \in OfferInputs :
           /\ RequestorId \in started
           /\ OffersReceived < MaxOffers
           /\ receive_offer(offer)
    \/ \E i \in 1..Len(consume_tasks), outcome \in FetchOutcomes :
           consume_service(i, outcome)

SpecRequestor == Init /\ [][NextRequestor]_vars

\* The provider, the requestor and the mediator together, within the hour
\* before the first TTL of a notified service runs out.
TasksOpen == Len(tasks) < MaxTasks

NextProvider ==
    \/ \E info \in {ProviderInfo, RequestorInfo} : start(info, "200")
    \/ \E args \in RequestArgs, publish \in {"200"},
          broadcast \in BOOLEAN :
           /\ RequestorId \in started
           /\ Cardinality(DOMAIN active_requests) < MaxRequests
           /\ create_request(args, publish, broadcast)
    \/ \E i \in 1..Len(broadcast_tasks), delivered \in BOOLEAN :
           /\ TasksOpen
           /\ broadcast_request(i, delivered /\ ProviderId \in started)
    \/ \E request \in PublishedDemoRequests :
           /\ Cardinality(DOMAIN requests) < MaxPublished
           /\ publish_demo_request(request)
    \/ \E request \in DistributedDemoRequests :
           /\ ProviderId \in started
           /\ TasksOpen
           /\ receive_request(request)
    \/ /\ ProviderId \in started
       /\ Len(tasks) + Cardinality(unseen_requests) <= MaxTasks
       /\ poll_for_requests
    \/ \E i \in 1..Len(tasks), ai_can_fulfill \in BOOLEAN :
           process_request_start(i, ai_can_fulfill)
    \/ \E i \in 1..Len(tasks) :
           \E found \in mediator_matches(tasks[i].request) \cup {None} :
               find_matching_service(i, found)
    \/ \E i \in 1..Len(tasks), reached \in BOOLEAN :
           get_bot_info_by_id(i, reached)
    \/ \E i \in 1..Len(tasks), outcome \in {"200", "exception"} :
           send_offer(i, outcome)
    \/ \E i \in 1..Len(tasks), outcome \in {"ok", "failed"} :
           notify_mediator(i, outcome)

SpecProvider == Init /\ [][NextProvider]_vars

\* The provider's service matching: requests are posted to its /request, the
\* requestor is the peer, the mediator answers the provider's calls.
DeliveriesOpen == Len(tasks) < MaxDeliveries

NextMatcher ==
    \/ \E info \in {ProviderInfo, PeerInfo} : start(info, "200")
    \/ \E request \in DeliveredRequests :
           /\ ProviderId \in started
           /\ DeliveriesOpen
           /\ receive_request(request)
    \/ \E i \in 1..Len(tasks), ai_can_fulfill \in {TRUE} :
           process_request_start(i, ai_can_fulfill)
    \/ \E i \in 1..Len(tasks) :
           \E found \in mediator_matches(tasks[i].request) \cup {None} :
               find_matching_service(i, found)
    \/ \E i \in 1..Len(tasks), reached \in BOOLEAN :
           get_bot_info_by_id(i, reached)
    \/ \E i \in 1..Len(tasks), outcome \in {"accepted", "rejected", "exception"} :
           send_offer_to_peer(i, outcome)
    \/ \E i \in 1..Len(tasks), outcome \in {"ok", "failed"} :
           notify_mediator(i, outcome)
    \/ \E i \in 1..Len(tasks), delivered \in BOOLEAN :
           send_data(i, delivered)

SpecMatcher == Init /\ [][NextMatcher]_vars

\* The fingerprint on its own: one pair of descriptions is drawn and hashed.
NextFingerprint ==
    /\ last.op = "init"
    /\ \E category \in Categories :
           \E d1, d2 \in DescriptionsOf(MaxPieces) :
               hash_two_requests(category, d1, d2)

SpecFingerprint == Init /\ [][NextFingerprint]_vars

\* Provider selection on its own: a cache, a category and an oracle answer
\* are drawn and the selection is made.
\* GET /bots?type=...: the ids of the bots of that type.
get_bots(type) == { b \in DOMAIN bots : bots[b].type = type }

\* find_suitable_providers on the orchestrator's own cache.  answered is
\* whether GET /bots?type=provider came back with 200, listing the order
\* the mediator lists its provider bots in.
suitable_providers(category, answered, listing, response_text) ==
    LET answer == IF answered
                  THEN << [k \in DOMAIN listing |-> bots[listing[k]]] >>
                  ELSE <<>>
        selection == find_suitable_providers(category, provider_cache, answer,
                                             response_text)
    IN  /\ provider_cache' = selection.provider_cache
        /\ last' = [op |-> "find_suitable_providers", category |-> category,
                    response_text |-> response_text, selection |-> selection,
                    refreshed |-> provider_cache = <<>>,
                    answered |-> answered]
        /\ UNCHANGED <<mediator_vars, uuid_count, requestor_vars,
                       provider_vars, started, deleting, response_quality,
                       loop_vars>>

NextSelection ==
    /\ last.op = "init"
    /\ \E category \in Categories, cached \in ProviderCaches :
           \E answer \in IF cached = <<>> THEN CacheAnswers ELSE {<<>>} :
               \E response_text \in SelectionTexts :
                   select_providers(category, cached, answer, response_text)

SpecSelection == Init /\ [][NextSelection]_vars

\* The ranking on its own: a list of responses and an oracle answer are
\* drawn and the list is ranked.
NextRanking ==
    /\ last.op = "init"
    /\ \E responses \in ResponseLists, response_text \in RankingTexts :
           rank(responses, response_text)

SpecRanking == Init /\ [][NextRanking]_vars

\* The provider with notify_service taken attempt by attempt, on requests
\* that skip the negotiation.
NextNotify ==
    \/ start(ProviderInfo, "200")
    \/ \E request \in DistributedDemoRequests :
           /\ ProviderId \in started
           /\ Len(tasks) < MaxNotifying
           /\ receive_request(request)
    \/ \E i \in 1..Len(tasks) : process_request_start(i, TRUE)
    \/ \E i \in 1..Len(tasks) :
           \E found \in mediator_matches(tasks[i].request) \cup {None} :
               find_matching_service(i, found)
    \/ \E i \in 1..Len(tasks), outcome \in AttemptOutcomes :
           notify_attempt(i, outcome)
    \/ \E i \in 1..Len(tasks) : notify_backoff(i)

SpecNotify == Init /\ [][NextNotify]_vars

\* The mediator's id assignment: bots register, services are registered and
\* notified with and without an id, and requests are published.
IdLogOpen == Len(transactions) < MaxIdLog

NextIds ==
    \/ \E bot \in BotInputs : IdLogOpen /\ register_bot(bot)
    \/ \E service \in ServiceInputs : IdLogOpen /\ register_service(service)
    \/ \E notification \in NotificationInputs :
           IdLogOpen /\ notify_service(notification)
    \/ \E request \in PublishedDemoRequests :
           IdLogOpen /\ publish_demo_request(request)

SpecIds == Init /\ [][NextIds]_vars

\* The requests of the mediator in time: requests are published with and
\* without a TTL, seconds pass and expiry tasks wake.
PublishedRequests ==
    [ requestor_id : {"requestor-1", "requestor-2"}, category : {"finance"},
      description : {"AAPL stock price"}, required_format : {"json"},
      ttl : {NoneInt, SomeInt(0), SomeInt(1), SomeInt(2)} ]

NextRequests ==
    \/ \E request \in PublishedRequests :
           /\ Len(transactions) < MaxPublications
           /\ publish_demo_request(request)
    \/ \E i \in 1..Len(timers) : expire_request(i)
    \/ now < MaxTime /\ Tick

SpecRequests == Init /\ [][NextRequests]_vars

\* The mediator with delete_bot taken statement by statement, next to the
\* handlers that read or write services.
AtomicLogOpen == Len(transactions) < MaxLogAtomic

NextAtomic ==
    \/ \E bot \in BotInputs : may_run /\ AtomicLogOpen /\ register_bot(bot)
    \/ \E service \in ServiceInputs :
           may_run /\ AtomicLogOpen /\ register_service(service)
    \/ \E notification \in NotificationInputs :
           may_run /\ AtomicLogOpen /\ notify_service(notification)
    \/ \E provider_id \in BotIds \cup {None} :
           may_run /\ get_services_handler(None, provider_id)
    \/ \E service_id \in KnownServiceIds : may_run /\ get_service(service_id)
    \/ \E bot_id \in BotIds : may_run /\ delete_bot_pop_bot(bot_id)
    \/ delete_bot_list_services
    \/ \E service_id \in KnownServiceIds : delete_bot_pop_service(service_id)
    \/ AtomicLogOpen /\ delete_bot_return

SpecAtomic == Init /\ [][NextAtomic]_vars

\* The mediator's lookups and deletions next to its registrations.
NextLookup ==
    \/ \E bot \in BotInputs : AtomicLogOpen /\ register_bot(bot)
    \/ \E service \in ServiceInputs : AtomicLogOpen /\ register_service(service)
    \/ \E notification \in NotificationInputs :
           AtomicLogOpen /\ notify_service(notification)
    \/ \E request \in PublishedDemoRequests :
           AtomicLogOpen /\ publish_demo_request(request)
    \/ \E bot_id \in BotIds : get_bot(bot_id)
    \/ \E bot_id \in BotIds : AtomicLogOpen /\ delete_bot(bot_id)
    \/ \E service_id \in KnownServiceIds : get_service(service_id)
    \/ \E service_id \in KnownServiceIds :
           AtomicLogOpen /\ delete_service(service_id)

SpecLookup == Init /\ [][NextLookup]_vars

\* The transaction log and its readers: the log is written by
\* registrations and notifications and read with every filter and limit.
TransactionTypes ==
    {None, "", "bot_registration", "service_notification", "no_such_type"}

Limits == {0 - 1, 0, 1, 2, MaxLogAtomic + 1}

NextLog ==
    \/ \E bot \in BotInputs : AtomicLogOpen /\ register_bot(bot)
    \/ \E notification \in NotificationInputs :
           AtomicLogOpen /\ notify_service(notification)
    \/ \E transaction_type \in TransactionTypes, limit \in Limits :
           get_transactions(transaction_type, limit)

SpecLog == Init /\ [][NextLog]_vars

\* Stored requests next to the operations that could touch them, and the
\* orchestrator's enhancement of a request with every kind of oracle answer.
EnhancedInputs ==
    [ requestor_id : {"requestor-1"}, category : {"finance"},
      description : {"AAPL stock price"}, required_format : {"json"},
      response_schema : {None},
      parameters : {EmptyDict, [k \in {"symbol"} |-> "AAPL"]},
      ttl : {SomeInt(1)} ]

EnhancementTexts ==
    {RateLimitedText, UnreachableText, ProseText, JsonText(NonObject),
     JsonText(ErrorObject)}
    \cup {JsonText(Enhancement(d, p)) :
             d \in {NoDescription, StringDescription("AAPL closing price in USD"),
                    DictDescription(<<>>), DictDescription(<<"AAPL price today">>),
                    NumberDescription},
             p \in {ListParameters,
                    DictParameters([k \in {"symbol"} |-> "MSFT"])}}
    \cup {JsonText(Enhancement(StringDescription("AAPL price today"), p)) :
             p \in {NoParameters,
                    DictParameters([k \in {"currency"} |-> "USD"])}}

StoredLogOpen == Len(transactions) < MaxStored

NextStored ==
    \/ \E request \in {r \in PublishedRequests :
                          r.ttl \in {NoneInt, SomeInt(1)}} :
           StoredLogOpen /\ publish_demo_request(request)
    \/ \E bot \in {b \in BotInputs : b.id = "b1"} :
           StoredLogOpen /\ register_bot(bot)
    \/ StoredLogOpen /\ delete_bot("b1")
    \/ \E category \in {None, "finance"},
          requestor_id \in {None, "requestor-1"} :
           get_requests_handler(category, requestor_id)
    \/ \E i \in 1..Len(timers) : expire_request(i)
    \/ now < MaxTime /\ Tick
    \/ \E request \in EnhancedInputs, response_text \in EnhancementTexts :
           enhance(request, response_text)

SpecStored == Init /\ [][NextStored]_vars

\* Ranking call after ranking call on one orchestrator, whose quality
\* aggregate carries over from call to call.
QualityItems == {r \in RankItems : r.reasoning = Absent}

QualityTexts ==
    {UnreachableText, JsonText(Object(Absent))}
    \cup {JsonText(Object(Array(items))) : items \in SeqsUpTo(QualityItems, MaxRankings)}

CountOf(quality, provider_id) ==
    IF provider_id \in DOMAIN quality THEN quality[provider_id].count ELSE 0

TotalOf(quality, provider_id) ==
    IF provider_id \in DOMAIN quality THEN quality[provider_id].total_score ELSE 0

ResponseProviders == {r.provider_id : r \in ResponsePool}

QualityOpen ==
    CountOf(response_quality, "pA") + CountOf(response_quality, "pB") < MaxScored

NextQuality ==
    \/ /\ QualityOpen
       /\ last.op = "init"
       /\ \E responses \in ResponseLists, response_text \in QualityTexts :
              rank(responses, response_text)
    \/ rank_responses_returned

SpecQuality == Init /\ [][NextQuality]_vars

\* The provider with the registry query and the endpoint probes of
\* _find_matching_service spelled out, on requests that skip the
\* negotiation.
ProbedRequests ==
    [ requestor_id : {"demo-orchestrator"}, category : {"finance"},
      description : {"AAPL stock price", "MSFT stock price", "AI trends"},
      required_format : {"json"}, ttl : {NoneInt} ]

NextProbe ==
    \/ start(ProviderInfo, "200")
    \/ \E request \in ProbedRequests :
           /\ ProviderId \in started
           /\ Len(tasks) < MaxProbing
           /\ \A i \in 1..Len(tasks) : tasks[i].pc = "done"
           /\ receive_request(request)
    \/ \E i \in 1..Len(tasks) : process_request_start(i, TRUE)
    \/ \E i \in 1..Len(tasks), registry \in RegistryOutcomes :
           \E listing \in Orderings(get_services(tasks[i].request.category,
                                                 ProviderId)) :
               \E probes \in ProbesOf(listing) :
                   query_services(i, registry, listing, probes)
    \/ \E i \in 1..Len(tasks), outcome \in {"ok", "failed"} :
           notify_mediator(i, outcome)

SpecProbe == Init /\ [][NextProbe]_vars

\* A requestor's request on its two ways to the provider: published and
\* polled, and broadcast to the provider's /request.
NextDelivery ==
    \/ \E info \in {ProviderInfo, RequestorInfo} : start(info, "200")
    \/ \E args \in RequestArgs, broadcast \in BOOLEAN :
           /\ RequestorId \in started
           /\ Cardinality(DOMAIN active_requests) < MaxRequests
           /\ create_request(args, "200", broadcast)
    \/ \E request \in PublishedDemoRequests :
           /\ Cardinality(DOMAIN requests) < MaxPublished
           /\ publish_demo_request(request)
    \/ \E i \in 1..Len(broadcast_tasks), delivered \in BOOLEAN :
           /\ Len(tasks) < MaxBegun
           /\ broadcast_request(i, delivered /\ ProviderId \in started)
    \/ /\ ProviderId \in started
       /\ Len(tasks) + Cardinality(unseen_requests) <= MaxBegun
       /\ poll_for_requests
    \/ \E i \in 1..Len(tasks), ai_can_fulfill \in BOOLEAN :
           process_request_start(i, ai_can_fulfill)

SpecDelivery == Init /\ [][NextDelivery]_vars

\* The provider's background loops from start() to stop(), next to the
\* requests they poll.  The event loop runs every task that is ready.
LoopSteps ==
    \/ start_loops
    \/ \E loop \in {"poll", "cleanup"} : loop_test(loop)
    \/ \E answered \in BOOLEAN : poll_round(answered)
    \/ cleanup_sweep
    \/ \E loop \in {"poll", "cleanup"} : loop_wake(loop)
    \/ \E i \in 1..Len(tasks) : process_request_start(i, TRUE)

NextShutdown ==
    \/ start(ProviderInfo, "200")
    \/ stop
    \/ ~keep_running /\ ProviderId \in DOMAIN bots /\ delete_bot(ProviderId)
    \/ \E request \in PublishedDemoRequests :
           /\ Cardinality(DOMAIN requests) < MaxPublished
           /\ publish_demo_request(request)
    \/ LoopSteps

\* A process_request task that was created has not yet run.
TaskReady == \E i \in DOMAIN tasks : tasks[i].pc = "start"

\* The event loop runs each loop when it is ready, and each created task:
\* a task cannot stay ready for ever without one being run.
LoopFairness ==
    /\ WF_vars(start_loops)
    /\ WF_vars(\E loop \in {"poll", "cleanup"} : loop_test(loop))
    /\ WF_vars(\E answered \in BOOLEAN : poll_round(answered))
    /\ WF_vars(cleanup_sweep)
    /\ WF_vars(\E loop \in {"poll", "cleanup"} : loop_wake(loop))
    /\ ([]<>(~TaskReady) \/
        []<><<\E i \in 1..Len(tasks) : process_request_start(i, TRUE)>>_vars)

SpecShutdown == Init /\ [][NextShutdown]_vars /\ LoopFairness

\* The fingerprint of descriptions that name a stock symbol, and of ones
\* that hold a symbol's letters inside a longer word.
TokenDescriptions ==
    { << "M", "E", "T", "A", " ", "s", "t", "o", "c", "k" >>,
      << "m", "e", "t", "a", "d", "a", "t", "a", " ", "q", "u", "a", "l",
         "i", "t", "y" >>,
      << "M", "e", "t", "a", "d", "a", "t", "a", "." >>,
      << "A", "A", "P", "L", " ", "p", "r", "i", "c", "e" >>,
      << "b", "o", "n", "d", " ", "d", "a", "t", "a" >>,
      << "m", "e", "t", "a", ",", " ", "p", "l", "e", "a", "s", "e" >>,
      << "b", "o", "n", "d", " ", "D", "a", "t", "a", "!" >> }

NextTokens ==
    /\ last.op = "init"
    /\ \E category \in Categories :
           \E d1, d2 \in TokenDescriptions :
               hash_two_requests(category, d1, d2)

SpecTokens == Init /\ [][NextTokens]_vars

\* The orchestrator's provider cache next to the mediator's registry:
\* providers register and deregister between the selections.
CachedBots ==
    BotInputs \cup { [id |-> "b3", name |-> "provider-3", type |-> "provider",
                      capabilities |-> {"finance", "ai"}] }

CacheTexts ==
    { ProseText,
      JsonText(Object(Array(<< [t |-> "object", provider_id |-> "b3",
                                confidence |-> Number(9)] >>))) }

NextCache ==
    \/ \E bot \in CachedBots : LogOpen /\ register_bot(bot)
    \/ \E bot \in CachedBots : LogOpen /\ delete_bot(bot.id)
    \/ \E category \in {"finance", "ai"}, answered \in BOOLEAN :
           \E listing \in Orderings(get_bots("provider")) :
               \E response_text \in CacheTexts :
                   suitable_providers(category, answered, listing,
                                      response_text)

SpecCache == Init /\ [][NextCache]_vars

\* ------------------------------------------------------------------ claims

OwnedBy(A) == {s \in DOMAIN services : services[s].provider_id = A}

\* C1: deregistering a registered agent A that owns N services removes A and
\* exactly those N services: no service of A remains, every other service is
\* still stored unchanged, and the service count drops by exactly N.
C1_DeregisterRemovesExactlyOwned ==
    [][\A A \in BotIds :
          (A \in DOMAIN bots /\ last'.op = "delete_bot" /\ last'.id = A)
          => /\ last'.status = "200"
             /\ A \notin DOMAIN bots'
             /\ \A s \in DOMAIN services' : services'[s].provider_id # A
             /\ \A s \in DOMAIN services \ OwnedBy(A) :
                    s \in DOMAIN services' /\ services'[s] = services[s]
             /\ Cardinality(DOMAIN services') =
                    Cardinality(DOMAIN services) - Cardinality(OwnedBy(A))]_vars

\* An agent owning a service was deregistered while another provider's service
\* was stored, and that service is still there.
C1_Witness ==
    /\ last.op = "delete_bot"
    /\ last.status = "200"
    /\ last.removed # {}
    /\ DOMAIN services # {}

\* C2: in every reachable state every stored service's provider_id is the id
\* of a currently registered agent.
C2_NoOrphanedServices ==
    \A s \in DOMAIN services : services[s].provider_id \in DOMAIN bots

\* C3: a service stored with TTL t at T0 and refreshed with TTL t' at
\* T1 < T0 + t is not evicted by the expiry task scheduled at T0: an expiry
\* task removes it only at T1 + t'.
C3_RefreshedEvictedOnlyAtLatestDeadline ==
    [][\A s \in DOMAIN services :
          (/\ last'.op = "expire_service"
           /\ s \notin DOMAIN services'
           /\ stored_at[s].refresh
           /\ TruthyInt(services[s].ttl))
          => now = stored_at[s].at + services[s].ttl[1]]_vars

\* C4: register_service with a provider_id that is not a registered agent
\* answers 400 and changes nothing: no service stored, no expiry task
\* scheduled, no transaction logged, no id drawn.
C4_UnknownProviderRejected ==
    [][(last'.op = "register_service" /\ last'.provider \notin DOMAIN bots)
          => /\ last'.status = "400"
             /\ UNCHANGED <<bots, services, requests, transactions, timers,
                            uuid_count>>]_vars

\* A registration was rejected while another agent was registered and a
\* service was stored.
C4_Witness ==
    /\ last.op = "register_service"
    /\ last.status = "400"
    /\ DOMAIN bots # {}
    /\ DOMAIN services # {}

\* C5: a notification whose provider_id is not a registered agent is rejected
\* and creates or overwrites no service.
C5_NotificationAdmission ==
    [][(last'.op = "notify_service" /\ last'.provider \notin DOMAIN bots)
          => /\ last'.status = "400"
             /\ services' = services]_vars

ResponsesOf(d, k) == IF k \in DOMAIN d THEN d[k] ELSE <<>>

\* C6: an offer whose request_id is no key of active_requests is answered,
\* without raising, with accepted = false and the message "Request not found
\* or expired", and changes nothing of the requestor: no response recorded, no
\* consumption scheduled.
C6_UnknownRequestOfferRejected ==
    [][(/\ last'.op = "receive_offer"
        /\ last'.offer.request_id \notin DOMAIN active_requests)
          => /\ last'.status = "200"
             /\ last'.response.accepted = FALSE
             /\ last'.response.message = "Request not found or expired"
             /\ UNCHANGED <<active_requests, request_responses,
                            consume_tasks>>]_vars

\* An offer naming an unknown request id was answered while the requestor
\* held a request and had recorded a response to it.
C6_Witness ==
    /\ last.op = "receive_offer"
    /\ last.offer.request_id \notin DOMAIN active_requests
    /\ last.offer.can_fulfill
    /\ DOMAIN request_responses # {}

\* C7: for every request a requester created and published, the offer a
\* provider constructs while processing it (polled from the mediator or
\* delivered by broadcast) names a request_id under which the requester holds
\* that very request, and the requester never answers it with "Request not
\* found or expired".
C7_OfferNamesHeldRequest ==
    \A i \in DOMAIN tasks :
        (tasks[i].request.requestor_id = RequestorId /\ tasks[i].offer # <<>>)
        => /\ tasks[i].offer[1].request_id \in DOMAIN active_requests
           /\ active_requests[tasks[i].offer[1].request_id] = tasks[i].request
           /\ tasks[i].response # <<>>
                  => tasks[i].response[1].message #
                         "Request not found or expired"

\* C8: an offer naming a known request is accepted if and only if its
\* can_fulfill is true, whatever its format, endpoint, constraints or TTL, and
\* it is appended, accepted or not, to the responses of that request and of no
\* other.
C8_AcceptedIffCanFulfill ==
    [][(/\ last'.op = "receive_offer"
        /\ last'.offer.request_id \in DOMAIN active_requests)
          => LET offer == last'.offer
                 before == ResponsesOf(request_responses, offer.request_id)
                 after == ResponsesOf(request_responses', offer.request_id)
             IN /\ last'.response.accepted = offer.can_fulfill
                /\ Len(after) = Len(before) + 1
                /\ SubSeq(after, 1, Len(before)) = before
                /\ after[Len(after)].offer = offer
                /\ after[Len(after)].evaluation.accepted = offer.can_fulfill
                /\ \A k \in DOMAIN request_responses \ {offer.request_id} :
                       /\ k \in DOMAIN request_responses'
                       /\ request_responses'[k] = request_responses[k]
                /\ DOMAIN request_responses' =
                       DOMAIN request_responses \cup {offer.request_id}]_vars

\* One request holds an accepted offer whose format differs from the one it
\* asked for, and a rejected offer; the last offer was for a known request.
C8_Witness ==
    /\ last.op = "receive_offer"
    /\ last.offer.request_id \in DOMAIN active_requests
    /\ \E k \in DOMAIN request_responses :
        \E i, j \in 1..Len(request_responses[k]) :
            /\ "offer" \in DOMAIN request_responses[k][i]
            /\ "offer" \in DOMAIN request_responses[k][j]
            /\ request_responses[k][i].evaluation.accepted
            /\ request_responses[k][i].offer.proposed_format #
                   active_requests[k].required_format
            /\ ~request_responses[k][j].evaluation.accepted

\* C9: /offer schedules consume_service exactly when the offer was accepted
\* and proposed an endpoint, for the request id, provider and endpoint of the
\* offer; a consume_service task whose fetch succeeds appends the data to the
\* responses of its request id, and one whose fetch fails stores nothing; no
\* error escapes the task.
C9_ConsumptionScheduledAndStored ==
    [][/\ last'.op = "receive_offer"
          => LET offer == last'.offer IN
             IF last'.response.accepted /\ Truthy(offer.proposed_endpoint)
             THEN consume_tasks' =
                      Append(consume_tasks,
                             [ request_id |-> offer.request_id,
                               provider_id |-> offer.provider_id,
                               endpoint |-> offer.proposed_endpoint ])
             ELSE consume_tasks' = consume_tasks
       /\ last'.op = "consume_service"
          => LET rid == last'.task.request_id
                 before == ResponsesOf(request_responses, rid)
             IN /\ last'.raised = FALSE
                /\ Len(consume_tasks') = Len(consume_tasks) - 1
                /\ IF last'.outcome = "ok"
                   THEN /\ request_responses' =
                               Put(request_responses, rid,
                                   Append(before,
                                          [ type |-> "service_data",
                                            provider_id |->
                                                last'.task.provider_id,
                                            data |-> "data@" \o
                                                last'.task.endpoint ]))
                   ELSE request_responses' = request_responses]_vars

\* A consumption scheduled by an accepted offer fetched its endpoint and
\* stored the data with the responses of the offer's request.
C9_Witness ==
    /\ last.op = "consume_service"
    /\ last.outcome = "ok"
    /\ \E i \in 1..Len(request_responses[last.task.request_id]) :
           LET e == request_responses[last.task.request_id][i]
           IN "type" \in DOMAIN e /\ e.type = "service_data"

\* The requester id of the request carries the demo marker.
DemoMarked(request) ==
    LET id == RequestorIdChars[request.requestor_id]
    IN Len(id) >= 5 /\ SubSeq(id, 1, 5) = << "d", "e", "m", "o", "-" >>

\* C10: a process_request task that decided to fulfil a request whose
\* requestor id starts with "demo-" never looks up or posts to a requestor and
\* holds no offer response: it is in _find_matching_service, or notifying the
\* mediator (of a refreshed or of a new service), or has returned after
\* notify_service was called.
C10_DemoRequestsSkipNegotiation ==
    \A i \in DOMAIN tasks :
        (DemoMarked(tasks[i].request) /\ tasks[i].can_fulfill)
        => /\ ~tasks[i].sent
           /\ tasks[i].response = <<>>
           /\ tasks[i].pc \in {"query", "notify", "done"}
           /\ tasks[i].pc = "notify" => tasks[i].mode \in {"refresh", "demo"}
           /\ tasks[i].pc = "done" => tasks[i].notified \in {"ok", "failed"}

\* A demo request was fulfilled by a new service: the task built its offer,
\* never posted it, notified the mediator, which now stores the service under
\* the task's service id, and returned.
C10_Witness ==
    \E i \in DOMAIN tasks :
        /\ DemoMarked(tasks[i].request)
        /\ tasks[i].can_fulfill
        /\ tasks[i].offer # <<>>
        /\ ~tasks[i].sent
        /\ tasks[i].pc = "done" /\ tasks[i].mode = "demo"
        /\ tasks[i].notified = "ok"
        /\ tasks[i].service_id \in DOMAIN services
        /\ services[tasks[i].service_id].provider_id = ProviderId

\* The fingerprint of the request a task processes.
FingerprintOf(task) == create_request_hash(task.request)

\* C11: once a task has returned having created service S for fingerprint f
\* (by the demo bypass, or by an accepted offer and fulfill_request), every
\* task that begins afterwards with a request of fingerprint f and decides to
\* fulfil it refreshes S: it takes S's id and draws no new one.
C11_LaterRequestRefreshesService ==
    \A i, j \in DOMAIN tasks :
        (/\ i \in tasks[j].after
         /\ tasks[i].mode \in {"demo", "fulfill"}
         /\ FingerprintOf(tasks[i]) = FingerprintOf(tasks[j])
         /\ tasks[j].service_id # None)
        => /\ tasks[j].mode = "refresh"
           /\ tasks[j].service_id = tasks[i].service_id

\* C12: under every interleaving of the process_request tasks the provider
\* holds at most one service id per fingerprint: no two of its dynamic
\* endpoints serve requests of one fingerprint.
C12_OneServicePerFingerprint ==
    \A i, j \in DOMAIN dynamic_endpoints :
        FingerprintOf(dynamic_endpoints[i]) = FingerprintOf(dynamic_endpoints[j])
        => dynamic_endpoints[i].id = dynamic_endpoints[j].id

CapabilityMatched(category, cache) ==
    LET has(p) == category \in p.capabilities
    IN  SelectSeq(cache, has)

\* C14: when at most 2 cached providers have the request's category among
\* their capabilities, the selection makes no oracle call and returns exactly
\* those providers (the empty list when none match).
C14_FewCandidatesNoOracle ==
    last.op = "find_suitable_providers" =>
        LET matched == CapabilityMatched(last.category, last.selection.provider_cache)
        IN  Len(matched) <= 2 =>
                /\ last.selection.oracle_calls = 0
                /\ last.selection.providers = matched

C14_Witness ==
    /\ last.op = "find_suitable_providers"
    /\ Len(CapabilityMatched(last.category, last.selection.provider_cache)) = 2
    /\ last.selection.oracle_calls = 0
    /\ Len(last.selection.providers) = 2

\* The oracle's answer has no entry with a confidence above 0.7: the call
\* failed, the text holds no JSON, the JSON is not of the expected shape, or
\* every entry's confidence is at most 0.7 (a missing one counts as 0).
NoQualifyingMatch(response_text) ==
    \/ response_text.json = <<>>
    \/ LET value == response_text.json[1]
       IN  \/ value.t # "object"
           \/ value.field.t # "array"
           \/ \E k \in 1..Len(value.field.items) :
                  \/ value.field.items[k].t # "object"
                  \/ value.field.items[k].confidence.t = "string"
           \/ \A k \in 1..Len(value.field.items) :
                  value.field.items[k].confidence.t = "number" =>
                      value.field.items[k].confidence.v <= 7

\* C15: with more than 2 capability-matching providers, if the oracle call
\* fails, returns malformed output, or returns no match with confidence above
\* 0.7, the selection returns the full capability-matched set and raises
\* nothing.
C15_OracleFailureFallsBack ==
    last.op = "find_suitable_providers" =>
        LET matched == CapabilityMatched(last.category, last.selection.provider_cache)
        IN  (Len(matched) > 2 /\ NoQualifyingMatch(last.response_text)) =>
                /\ ~last.selection.raised
                /\ last.selection.oracle_calls = 1
                /\ last.selection.providers = matched

C15_Witness ==
    /\ last.op = "find_suitable_providers"
    /\ Len(CapabilityMatched(last.category, last.selection.provider_cache)) = 3
    /\ last.response_text.json # <<>>
    /\ last.response_text.json[1].field.t = "array"
    /\ Len(last.response_text.json[1].field.items) = 2
    /\ \A k \in 1..2 : last.response_text.json[1].field.items[k].confidence = Number(7)
    /\ last.selection.oracle_calls = 1
    /\ Len(last.selection.providers) = 3

\* The oracle's answer is an array of ranking entries, each an object with a
\* numeric or missing score.
RankingsOf(response_text) ==
    IF /\ response_text.json # <<>>
       /\ response_text.json[1].t = "object"
       /\ response_text.json[1].field.t = "array"
    THEN response_text.json[1].field.items
    ELSE <<>>

WellFormedRankings(response_text) ==
    /\ response_text.json # <<>>
    /\ response_text.json[1].t = "object"
    /\ response_text.json[1].field.t = "array"
    /\ \A k \in 1..Len(response_text.json[1].field.items) :
           /\ response_text.json[1].field.items[k].t = "object"
           /\ response_text.json[1].field.items[k].quality_score.t # "string"

DistinctServiceIds(responses) ==
    \A i, j \in 1..Len(responses) :
        i # j => responses[i].service_id # responses[j].service_id

\* C16: for at least 2 responses with pairwise distinct service ids and any
\* rankings the oracle gives (repeated service ids, unknown service ids,
\* omitted responses), the returned list holds each input response exactly
\* once, and every response the oracle did not score carries score 0 and the
\* rationale "Not evaluated".
C16_EachResponseRankedOnce ==
    last.op = "rank_responses" =>
        LET rankings == RankingsOf(last.response_text)
            scored(i) == \E k \in 1..Len(rankings) :
                             rankings[k].service_id = last.responses[i].service_id
        IN  ( /\ Len(last.responses) >= 2
              /\ DistinctServiceIds(last.responses)
              /\ WellFormedRankings(last.response_text) ) =>
                /\ \A i \in 1..Len(last.responses) :
                       Cardinality({k \in 1..Len(last.ranking.returned) :
                                       last.ranking.returned[k] = i}) = 1
                /\ \A i \in 1..Len(last.responses) :
                       ~scored(i) =>
                           /\ last.ranking.responses[i].quality_score = Number(0)
                           /\ last.ranking.responses[i].quality_reasoning = NotEvaluated

\* C17: when the oracle fails during ranking (unreachable, rate-limited, or
\* answering with text that holds no JSON), rank_responses returns the input
\* list unchanged: the same responses in the same order, with no score or
\* rationale added to any of them.
C17_OracleFailureLeavesResponsesUnchanged ==
    ( /\ last.op = "rank_responses"
      /\ Len(last.responses) >= 2
      /\ DistinctServiceIds(last.responses)
      /\ last.response_text.json = <<>> ) =>
        /\ last.ranking.returned = Identity(Len(last.responses))
        /\ last.ranking.responses = last.responses

\* The attempts of a call that were not answered with success.
FailedAttempts(task) ==
    {k \in 1..Len(task.attempts) : task.attempts[k] # "200"}

InNotifyService(task) == task.pc \in {"notify", "backoff"}

\* C18: notify_service makes at most 3 delivery attempts; it returns true at
\* the first attempt answered with success and makes no attempt after it; it
\* returns false exactly when all 3 attempts failed; and every failed
\* attempt is followed by a backoff wait.
C18_NotifyRetriesBounded ==
    \A i \in 1..Len(tasks) :
        LET task == tasks[i]
            failed == Cardinality(FailedAttempts(task))
        IN  /\ Len(task.attempts) <= 3
            /\ (Len(task.attempts) = 3 /\ failed = 3) =>
                   task.pc # "notify"
            /\ \A k \in 1..Len(task.attempts) :
                   task.attempts[k] = "200" =>
                       /\ k = Len(task.attempts)
                       /\ task.notified = "ok"
            /\ task.notified = "ok" =>
                   /\ task.attempts # <<>>
                   /\ task.attempts[Len(task.attempts)] = "200"
            /\ task.notified = "failed" <=>
                   /\ failed = 3
                   /\ ~InNotifyService(task)
            /\ task.waits = IF task.pc = "backoff" THEN failed - 1 ELSE failed

C18_Witness ==
    \E i \in 1..Len(tasks) :
        /\ tasks[i].notified = "failed"
        /\ Len(tasks[i].attempts) = 3
        /\ tasks[i].waits = 3
        /\ tasks[i].pc = "done"

\* The log entries that store or delete service s.
StoresService(k, s) ==
    /\ transactions[k].type \in {"service_registration", "service_notification"}
    /\ transactions[k].details.service_id = s

DeletesService(k, s) ==
    /\ transactions[k].type = "service_deletion"
    /\ transactions[k].details.service_id = s

\* Service s was stored, deleted explicitly, and stored again; the last
\* store is the one it is held from.
ReRegisteredAfterDelete(s) ==
    \E a, d, r \in 1..Len(transactions) :
        /\ a < d /\ d < r
        /\ StoresService(a, s)
        /\ DeletesService(d, s)
        /\ StoresService(r, s)
        /\ \A k \in (d + 1)..Len(transactions) :
               (StoresService(k, s) \/ DeletesService(k, s)) => k = r

\* C19: a service with a TTL that was deleted explicitly and registered again
\* under the same id is not evicted by the timer of the first registration:
\* an expiry task removes it only at the deadline of its own TTL.
C19_OldTimerSparesReRegistered ==
    [][\A s \in DOMAIN services :
          (/\ last'.op = "expire_service"
           /\ s \notin DOMAIN services'
           /\ ReRegisteredAfterDelete(s))
          => /\ TruthyInt(services[s].ttl)
             /\ now = stored_at[s].at + services[s].ttl[1]]_vars

\* The request ids returned by the publications logged so far.
PublishedIds ==
    {transactions[k].details.request_id :
        k \in {j \in 1..Len(transactions) :
                  transactions[j].type = "request_publication"}}

\* C20: every publish_request stores the request under an id returned by no
\* earlier publication and leaves the stored requests as they were, and a
\* register_service or notify_service without an id assigns an id that is
\* not the key of an existing service and overwrites none.
C20_AssignedIdsUnique ==
    [][/\ last'.op = "publish_request" =>
              /\ Cardinality(DOMAIN requests' \ DOMAIN requests) = 1
              /\ (DOMAIN requests' \ DOMAIN requests) \cap PublishedIds = {}
              /\ \A r \in DOMAIN requests : requests'[r] = requests[r]
       /\ (/\ last'.op \in {"register_service", "notify_service"}
           /\ last'.status = "200"
           /\ uuid_count' # uuid_count) =>
              /\ last'.id \notin DOMAIN services
              /\ last'.id \in DOMAIN services'
              /\ \A s \in DOMAIN services : services'[s] = services[s]]_vars

\* The same request content was published twice and stored twice, and an
\* id-less notification was stored next to an existing service.
C20_Witness ==
    /\ Cardinality(DOMAIN requests) = 2
    /\ \A r1, r2 \in DOMAIN requests : requests[r1] = requests[r2]
    /\ last.op = "notify_service"
    /\ last.id = Uuid(uuid_count)
    /\ Cardinality(DOMAIN services) = 2

\* The time at which request r was published, from the log.
PublishedAt(log, r) ==
    log[CHOOSE k \in 1..Len(log) :
            /\ log[k].type = "request_publication"
            /\ log[k].details.request_id = r].timestamp

\* Request r is returned by GET /requests, without filters and with the
\* filters it matches.
Listed(r) ==
    /\ r \in DOMAIN get_requests(None, None)
    /\ r \in DOMAIN get_requests(requests[r].category, requests[r].requestor_id)
    /\ get_requests(None, None)[r] = requests[r]

HalfRemoved ==
    /\ deleting # <<>>
    /\ deleting[1].bot_id \notin DOMAIN bots
    /\ \E s \in DOMAIN services : services[s].provider_id = deleting[1].bot_id

\* C22: no get_services, get_service, register_service or notify_service is
\* handled in a state in which a delete_bot has removed its bot and not yet
\* all of the bot's services.
C22_DeregistrationAtomic ==
    [][last'.op \in {"get_services", "get_service", "register_service",
                     "notify_service"}
          => ~HalfRemoved]_vars

\* A listing was answered after a deregistration that removed a service.
C22_Witness ==
    /\ last.op = "get_services"
    /\ transactions # <<>>
    /\ transactions[Len(transactions)].type = "bot_deregistration"
    /\ \E k \in 1..Len(transactions) :
           /\ transactions[k].type = "service_registration"
           /\ transactions[k].details.provider_id =
                  transactions[Len(transactions)].details.bot_id
           /\ transactions[k].details.service_id \notin DOMAIN services

\* C23: get_bot, delete_bot, get_service and delete_service called with an
\* id that is not in the store they look in answer 404 and leave the bots,
\* the services, the requests and the transaction log as they were.
C23_UnknownIdNotFound ==
    [][( \/ /\ last'.op \in {"get_bot", "delete_bot"}
            /\ last'.id \notin DOMAIN bots
         \/ /\ last'.op \in {"get_service", "delete_service"}
            /\ last'.id \notin DOMAIN services )
          => /\ last'.status = "404"
             /\ UNCHANGED <<bots, services, requests, transactions>>]_vars

\* A deletion of an unknown service was refused while a bot and another
\* service were stored.
C23_Witness ==
    /\ last.op = "delete_service"
    /\ last.status = "404"
    /\ DOMAIN bots # {}
    /\ DOMAIN services # {}

\* The logged entries that match a type filter, oldest first; None and the
\* empty string are no filter.
Matching(log, transaction_type) ==
    LET matches(t) == t.type = transaction_type
    IN  IF transaction_type \in {None, ""} THEN log ELSE SelectSeq(log, matches)

\* C24: get_transactions returns the last min(limit, k) of the k logged
\* entries that match the type filter (all entries without a filter), in the
\* order they were logged; nothing when limit is 0; and it leaves the log as
\* it was.
C24_TransactionsMostRecent ==
    [][(last'.op = "get_transactions" /\ last'.limit >= 0) =>
          LET matching == Matching(transactions, last'.type)
              k == Len(matching)
              n == IF last'.limit < k THEN last'.limit ELSE k
          IN  /\ Len(last'.returned) = n
              /\ \A j \in 1..n : last'.returned[j] = matching[k - n + j]
              /\ last'.limit = 0 => last'.returned = <<>>
              /\ transactions' = transactions]_vars

\* A filtered reading returned fewer entries than match, the most recent
\* ones.
C24_Witness ==
    /\ last.op = "get_transactions"
    /\ last.type = "service_notification"
    /\ last.limit = 1
    /\ Len(Matching(transactions, "service_notification")) = 2
    /\ Len(transactions) = 3
    /\ Len(last.returned) = 1


\* The oracle failed: it was unreachable or rate-limited, or its text holds
\* no JSON.
OracleFailed(response_text) == response_text.json = <<>>

\* C25: a stored request is never mutated: from its publication to its
\* removal, which only TTL expiry performs, no mediator operation changes
\* what is stored under its id; enhance_request leaves the request it was
\* given unchanged, returns a new request when it enhances, and returns the
\* given request itself when the oracle fails.
C25_StoredRequestImmutable ==
    [][/\ \A r \in DOMAIN requests :
              IF r \in DOMAIN requests'
              THEN requests'[r] = requests[r]
              ELSE \E i \in 1..Len(timers) :
                       /\ timers[i].kind = "request"
                       /\ timers[i].id = r
                       /\ timers[i].fire_at = now
                       /\ Len(timers') = Len(timers) - 1
       /\ last'.op = "enhance_request" =>
              /\ last'.outcome.request = last'.request
              /\ OracleFailed(last'.response_text) =>
                     /\ last'.outcome.is_input
                     /\ last'.outcome.returned = last'.request
              /\ ~last'.outcome.is_input =>
                     /\ last'.outcome.returned.requestor_id = last'.request.requestor_id
                     /\ last'.outcome.returned.category = last'.request.category
                     /\ last'.outcome.returned.ttl = last'.request.ttl]_vars

\* A request is stored while another request was enhanced into a new value
\* with a new description and a parameter the oracle overrode.
C25_Witness ==
    /\ DOMAIN requests # {}
    /\ last.op = "enhance_request"
    /\ ~last.outcome.is_input
    /\ last.outcome.returned.description # last.request.description
    /\ "symbol" \in DOMAIN last.request.parameters
    /\ last.outcome.returned.parameters # last.request.parameters
    /\ last.outcome.request = last.request


\* The oracle's answer is an object whose "matches" is an array of objects,
\* each with a numeric or missing confidence.
WellFormedMatches(response_text) ==
    /\ response_text.json # <<>>
    /\ response_text.json[1].t = "object"
    /\ response_text.json[1].field.t = "array"
    /\ \A k \in 1..Len(response_text.json[1].field.items) :
           /\ response_text.json[1].field.items[k].t = "object"
           /\ response_text.json[1].field.items[k].confidence.t \in {"number", "absent"}

\* The provider has an entry of the oracle with a confidence above 0.7.
HighlyMatched(response_text, p) ==
    \E k \in 1..Len(response_text.json[1].field.items) :
        LET m == response_text.json[1].field.items[k]
        IN  /\ m.provider_id = p.id
            /\ m.confidence.t = "number"
            /\ m.confidence.v > 7

\* C26: with more than 2 capability-matching providers and at least one
\* oracle match with confidence above 0.7 that names one of them, the
\* selection returns exactly the capability-matching providers that have
\* such a match; a provider scored 0.7 or lower, or not scored, is excluded.
C26_HighConfidenceSelected ==
    last.op = "find_suitable_providers" =>
        LET matched == CapabilityMatched(last.category, last.selection.provider_cache)
            high(p) == HighlyMatched(last.response_text, p)
        IN  ( /\ Len(matched) > 2
              /\ WellFormedMatches(last.response_text)
              /\ \E i \in 1..Len(matched) : high(matched[i]) ) =>
                /\ last.selection.oracle_calls = 1
                /\ last.selection.providers = SelectSeq(matched, high)

\* Of three candidates one is scored 0.9, one exactly 0.7 and one not at
\* all: the first alone is returned.
C26_Witness ==
    /\ last.op = "find_suitable_providers"
    /\ Len(CapabilityMatched(last.category, last.selection.provider_cache)) = 3
    /\ WellFormedMatches(last.response_text)
    /\ Len(last.response_text.json[1].field.items) = 2
    /\ \E k \in 1..2 :
           /\ last.response_text.json[1].field.items[k].provider_id = "p1"
           /\ last.response_text.json[1].field.items[k].confidence = Number(9)
    /\ \E k \in 1..2 :
           /\ last.response_text.json[1].field.items[k].provider_id = "p2"
           /\ last.response_text.json[1].field.items[k].confidence = Number(7)
    /\ Len(last.selection.providers) = 1
    /\ last.selection.providers[1].id = "p1"

\* C27: whenever at least one provider matches the request's category, the
\* selection returns a non-empty list, whatever the oracle answers.
C27_SelectionNonEmpty ==
    last.op = "find_suitable_providers" =>
        ( CapabilityMatched(last.category, last.selection.provider_cache) # <<>> =>
              last.selection.providers # <<>> )


\* C28: rank_responses called with no response or one response returns its
\* input unchanged, makes no oracle call and leaves the per-provider quality
\* aggregate as it was.
C28_FewResponsesUntouched ==
    (last.op = "rank_responses" /\ Len(last.responses) <= 1) =>
        /\ last.ranking.returned = Identity(Len(last.responses))
        /\ last.ranking.responses = last.responses
        /\ last.ranking.oracle_calls = 0
        /\ last.ranking.response_quality = last.before
        /\ response_quality = last.before

\* One response, which the oracle's rankings would have scored, is ranked
\* on an orchestrator whose aggregate already has entries.
C28_Witness ==
    /\ last.op = "rank_responses"
    /\ Len(last.responses) = 1
    /\ last.before # EmptyDict
    /\ Len(RankingsOf(last.response_text)) = 2
    /\ RankingsOf(last.response_text)[1].service_id = last.responses[1].service_id
    /\ RankingsOf(last.response_text)[1].quality_score = Number(8)
    /\ last.ranking.oracle_calls = 0


\* The ranking entries that name, by service id, a response of the provider.
MatchedEntries(rankings, responses, provider_id) ==
    {k \in 1..Len(rankings) :
        \E i \in 1..Len(responses) :
            /\ responses[i].service_id = rankings[k].service_id
            /\ responses[i].provider_id = provider_id}

\* The sum of the scores of the first k entries that are among the matched
\* ones; a missing score counts as 0.
RECURSIVE MatchedScore(_, _, _)
MatchedScore(rankings, matched, k) ==
    IF k = 0 THEN 0
    ELSE MatchedScore(rankings, matched, k - 1)
         + (IF k \in matched /\ rankings[k].quality_score.t = "number"
            THEN rankings[k].quality_score.v ELSE 0)

\* The ranking call ended in its except branch: the oracle gave no JSON,
\* or JSON that is not an object with an array of rankings, or an entry that
\* is not an object, or a matched entry whose score is not a number.
RankingFailed(responses, response_text) ==
    \/ response_text.json = <<>>
    \/ response_text.json[1].t # "object"
    \/ response_text.json[1].field.t \notin {"array", "absent"}
    \/ \E k \in 1..Len(response_text.json[1].field.items) :
           LET entry == response_text.json[1].field.items[k]
           IN  \/ entry.t # "object"
               \/ /\ entry.quality_score.t = "string"
                  /\ \E i \in 1..Len(responses) :
                         responses[i].service_id = entry.service_id

\* C30: each rank_responses call adds, for every provider, the number of the
\* oracle's ranking entries matched by service id to a response of that
\* provider to count and the sum of their scores to total_score, both
\* together; a call that ends in failure leaves the aggregate as it was.
C30_AggregateCountsMatchedEntries ==
    [][last'.op = "rank_responses" =>
          LET responses == last'.responses
              rankings == IF Len(responses) <= 1 THEN <<>>
                          ELSE RankingsOf(last'.response_text)
          IN  IF Len(responses) >= 2 /\ RankingFailed(responses, last'.response_text)
              THEN response_quality' = response_quality
              ELSE \A p \in ResponseProviders :
                       LET matched == MatchedEntries(rankings, responses, p)
                       IN  /\ CountOf(response_quality', p)
                                 = CountOf(response_quality, p) + Cardinality(matched)
                           /\ TotalOf(response_quality', p)
                                 = TotalOf(response_quality, p)
                                   + MatchedScore(rankings, matched, Len(rankings))]_vars

\* The same, for the calls that do not end in failure.
C30_CompletedCallsCounted ==
    [][last'.op = "rank_responses" =>
          LET responses == last'.responses
              rankings == IF Len(responses) <= 1 THEN <<>>
                          ELSE RankingsOf(last'.response_text)
          IN  (Len(responses) <= 1 \/ ~RankingFailed(responses, last'.response_text)) =>
                  \A p \in ResponseProviders :
                       LET matched == MatchedEntries(rankings, responses, p)
                       IN  /\ CountOf(response_quality', p)
                                 = CountOf(response_quality, p) + Cardinality(matched)
                           /\ TotalOf(response_quality', p)
                                 = TotalOf(response_quality, p)
                                   + MatchedScore(rankings, matched, Len(rankings))]_vars


\* No two ranking entries name the same service id.
DistinctRankedIds(rankings) ==
    \A j, k \in 1..Len(rankings) :
        j # k => rankings[j].service_id # rankings[k].service_id

\* C29: in the ranking output the responses scored by the oracle come
\* first, in the order of the oracle's ranking entries, each with the score
\* and rationale of the entry that names its service id; the unscored
\* responses follow in their original relative order; entries naming a
\* service id that no response has add nothing.
C29_ScoredFirstInOracleOrder ==
    ( /\ last.op = "rank_responses"
      /\ Len(last.responses) >= 2
      /\ DistinctServiceIds(last.responses)
      /\ WellFormedRankings(last.response_text)
      /\ DistinctRankedIds(RankingsOf(last.response_text)) ) =>
        LET responses == last.responses
            returned == last.ranking.returned
            known(entry) == \E i \in 1..Len(responses) :
                                responses[i].service_id = entry.service_id
            scored == SelectSeq(RankingsOf(last.response_text), known)
            unscored == {i \in 1..Len(responses) :
                            \A j \in 1..Len(scored) :
                                scored[j].service_id # responses[i].service_id}
        IN  /\ Len(returned) = Len(scored) + Cardinality(unscored)
            /\ \A j \in 1..Len(scored) :
                   LET out == last.ranking.responses[returned[j]]
                   IN  /\ out.service_id = scored[j].service_id
                       /\ out.provider_id = responses[returned[j]].provider_id
                       /\ out.quality_score =
                              IF scored[j].quality_score.t = "absent" THEN Number(0)
                              ELSE scored[j].quality_score
                       /\ out.quality_reasoning =
                              IF scored[j].reasoning.t = "absent" THEN Reasoning("")
                              ELSE scored[j].reasoning
            /\ \A j \in (Len(scored) + 1)..Len(returned) :
                   /\ returned[j] \in unscored
                   /\ j < Len(returned) => returned[j] < returned[j + 1]

\* The oracle ranks the second of two responses and a service nobody
\* offered: the second response comes first with the oracle's score and
\* rationale, the first follows unscored.
C29_Witness ==
    /\ last.op = "rank_responses"
    /\ Len(last.responses) = 2
    /\ last.responses[1].service_id = "s1"
    /\ last.responses[2].service_id = "s2"
    /\ WellFormedRankings(last.response_text)
    /\ Len(RankingsOf(last.response_text)) = 2
    /\ RankingsOf(last.response_text)[1].service_id = "s9"
    /\ RankingsOf(last.response_text)[2].service_id = "s2"
    /\ RankingsOf(last.response_text)[2].quality_score = Number(8)
    /\ RankingsOf(last.response_text)[2].reasoning = Reasoning("good")
    /\ last.ranking.returned = <<2, 1>>
    /\ last.ranking.responses[2].quality_score = Number(8)
    /\ last.ranking.responses[2].quality_reasoning = Reasoning("good")
    /\ last.ranking.responses[1].quality_reasoning = NotEvaluated


\* The answers by which the mediator turns a notification down.
Rejections == {"404", "500"}

\* C31: when the mediator answers a provider's service notification with a
\* rejection (a non-success status, not a network failure), the provider
\* reports the failure after that single attempt: no attempt follows a
\* rejected one, and once the backoff is over the call has failed.
C31_RejectionNotRetried ==
    \A i \in 1..Len(tasks) :
        \A k \in 1..Len(tasks[i].attempts) :
            tasks[i].attempts[k] \in Rejections =>
                /\ k = Len(tasks[i].attempts)
                /\ ~InNotifyService(tasks[i]) => tasks[i].notified = "failed"


\* The pending expiry tasks of a request.
ExpiriesOf(r) ==
    {i \in 1..Len(timers) : timers[i].kind = "request" /\ timers[i].id = r}

\* C32: a request stored without a TTL is permanent, no expiry is pending
\* for it; a request stored with a TTL value, the smallest one included, has
\* an expiry scheduled for as long as it is stored.
C32_TTLSchedulesExpiry ==
    \A r \in DOMAIN requests :
        IF requests[r].ttl = NoneInt
        THEN ExpiriesOf(r) = {}
        ELSE ExpiriesOf(r) # {}


\* The candidates of the listing whose probe was answered 200.
Reachable(probes) == {k \in 1..Len(probes) : probes[k] = "200"}

\* C33: in _find_matching_service a failed registry query and a failed or
\* non-200 probe never end request processing: failing candidates are
\* skipped and the first reachable one is taken; when the query fails or no
\* candidate is reachable the matcher reports no match and the provider
\* draws a new service id and goes on.
C33_ProbeFailuresSkipped ==
    last.op = "find_matching_service" =>
        LET task == tasks[last.task]
            reachable == IF last.registry = "200" THEN Reachable(last.probes)
                         ELSE {}
        IN  /\ task.pc \in {"notify", "lookup"}
            /\ task.can_fulfill
            /\ IF reachable # {}
               THEN /\ \E k \in reachable :
                          /\ \A j \in reachable : k <= j
                          /\ task.service_id = last.listing[k]
                    /\ task.mode = "refresh"
               ELSE /\ task.service_id = Uuid(uuid_count)
                    /\ task.service_id \notin
                           {last.listing[k] : k \in 1..Len(last.listing)}
                    /\ task.mode = "demo"
                    /\ task.service_id \in EndpointIds

\* Two services are listed, the probe of the first fails, the second
\* answers and is taken.
C33_Witness ==
    /\ last.op = "find_matching_service"
    /\ last.registry = "200"
    /\ Len(last.listing) = 2
    /\ last.probes[1] \in {"500", "exception"}
    /\ last.probes[2] = "200"
    /\ tasks[last.task].service_id = last.listing[2]
    /\ tasks[last.task].mode = "refresh"


\* The keys under which the provider began to process a request.
BegunUnder(request) ==
    {k \in DOMAIN provider_active_requests :
        provider_active_requests[k] = request}

\* C34: the provider begins processing each published request at most
\* once, whether the request reaches it by the poll loop, by direct
\* delivery, or by both.
C34_ProcessedAtMostOnce ==
    \A r \in DOMAIN requests : Cardinality(BegunUnder(requests[r])) <= 1


\* C35: after stop() has cleared keep_running both background loops
\* eventually end, and a loop that has seen the cleared flag starts no new
\* poll round or cleanup sweep: a round begins only from a test that found
\* the flag set, and an ended loop stays ended.
C35_LoopsEndAfterStop ==
    /\ [][\A loop \in {"poll", "cleanup"} :
              /\ (loops[loop] # "round" /\ loops'[loop] = "round") =>
                     (loops[loop] = "test" /\ keep_running)
              /\ loops[loop] = "ended" => loops'[loop] = "ended"]_vars
    /\ (~keep_running) ~> (\A loop \in {"poll", "cleanup"} :
                               loops[loop] = "ended")

\* The provider was stopped after a poll round had handed a request to
\* process_request, and both loops have ended.
C35_Witness ==
    /\ ~keep_running
    /\ loops["poll"] = "ended"
    /\ loops["cleanup"] = "ended"
    /\ tasks # <<>>

\* The description after punctuation, case and runs of spaces are removed.
Normalized(description) ==
    Strip(CollapseSpaces(StripPunctuation(Lower(description))))

\* The words of a text: its maximal runs without a space.
Tokens(str) ==
    { SubSeq(str, p[1], p[2]) :
        p \in { q \in (DOMAIN str) \X (DOMAIN str) :
                  /\ q[1] <= q[2]
                  /\ \A k \in q[1]..q[2] : ~IsSpace(str[k])
                  /\ (q[1] = 1 \/ IsSpace(str[q[1] - 1]))
                  /\ (q[2] = Len(str) \/ IsSpace(str[q[2] + 1])) } }

\* A known symbol is one of the words of the normalized description.
NamesSymbol(description) ==
    \E i \in DOMAIN stock_symbols :
        Lower(stock_symbols[i]) \in Tokens(Normalized(description))

\* C36: a finance description is collapsed to "<SYMBOL> stock data" only
\* when a known symbol is a whole word of its normalized text: a
\* description without such a word is hashed in its own normalized form,
\* and its fingerprint differs from that of a request naming a symbol.
C36_SymbolOnlyAsToken ==
    (last.op = "create_request_hash" /\ last.category = "finance" /\
     ~NamesSymbol(last.d1)) =>
        /\ last.h1 = md5_hexdigest(hash_input_raw("finance",
                                                  Normalized(last.d1)))
        /\ NamesSymbol(last.d2) => last.h1 # last.h2

\* The same, for the descriptions that hold no symbol's letters at all.
C36_WithoutSymbolLetters ==
    (last.op = "create_request_hash" /\ last.category = "finance" /\
     \A i \in DOMAIN stock_symbols :
         ~Contains(Normalized(last.d1), Lower(stock_symbols[i]))) =>
        /\ last.h1 = md5_hexdigest(hash_input_raw("finance",
                                                  Normalized(last.d1)))
        /\ NamesSymbol(last.d2) => last.h1 # last.h2

\* The tasks of the provider that were given a service id.
Served == { i \in DOMAIN tasks : tasks[i].service_id # None }

\* C37: two requests with different fingerprints handled by the provider
\* never end up served under the same service id, whether the match was
\* found in the local side-table or through GET /services and the probe.
C37_ReuseOnlySameFingerprint ==
    \A i, j \in Served :
        create_request_hash(tasks[i].request) #
            create_request_hash(tasks[j].request) =>
                tasks[i].service_id # tasks[j].service_id

\* The provider has received an OfferResponse with accepted = true for
\* the offer of task i.
OfferAccepted(i) ==
    tasks[i].response # <<>> /\ tasks[i].response[1].accepted

\* C38: for a request whose requester id lacks the demo marker and for
\* which no existing service matched, the provider notifies the mediator
\* of a new service only after its offer was accepted: with the requester
\* unknown, the offer rejected or the negotiation call failed, nothing is
\* registered for the request.
C38_RegisteredOnlyWhenAccepted ==
    \A i \in DOMAIN tasks :
        (/\ ~is_demo_requestor(tasks[i].request)
         /\ tasks[i].mode # "refresh"
         /\ (tasks[i].pc = "notify" \/ tasks[i].notified # "")) =>
            OfferAccepted(i)

\* The same with the requester known to the mediator and the POST of the
\* offer answered: an accepted offer is registered, a rejected one is not.
C38_AnsweredOffers ==
    \A i \in DOMAIN tasks :
        (/\ ~is_demo_requestor(tasks[i].request)
         /\ tasks[i].mode \notin {"refresh", "not_found", "error"}
         /\ (tasks[i].pc = "notify" \/ tasks[i].notified # "")) =>
            OfferAccepted(i)

\* The provider bots registered with the mediator.
RegisteredProviders == { bots[b] : b \in get_bots("provider") }

\* C39: every provider a selection returns is registered with the
\* mediator at that time, and every provider registered with the request's
\* category is among the capability-matched candidates.  Stated for the
\* selections whose query of the mediator, if one was made, was answered.
C39_CacheFollowsRegistry ==
    (last.op = "find_suitable_providers" /\
     (last.refreshed => last.answered)) =>
        LET matching == category_matching_providers(last.category,
                                                    provider_cache)
        IN  /\ \A k \in DOMAIN last.selection.providers :
                   last.selection.providers[k] \in RegisteredProviders
            /\ \A bot \in RegisteredProviders :
                   last.category \in bot.capabilities =>
                       \E k \in DOMAIN matching : matching[k] = bot

\* The same for the selections that found the cache empty and filled it
\* from the mediator's answer.
C39_FreshCacheFollowsRegistry ==
    (last.op = "find_suitable_providers" /\ last.refreshed /\
     last.answered) =>
        LET matching == category_matching_providers(last.category,
                                                    provider_cache)
        IN  /\ \A k \in DOMAIN last.selection.providers :
                   last.selection.providers[k] \in RegisteredProviders
            /\ \A bot \in RegisteredProviders :
                   last.category \in bot.capabilities =>
                       \E k \in DOMAIN matching : matching[k] = bot

\* C40: for every request and every oracle output the list a selection
\* returns has no provider twice and holds only cached providers whose
\* capabilities contain the request's category: the oracle narrows the
\* candidates and never adds one.
C40_SelectionWithinCandidates ==
    last.op = "find_suitable_providers" =>
        LET providers == last.selection.providers
            cache == last.selection.provider_cache
        IN  /\ \A k \in DOMAIN providers :
                   /\ \E c \in DOMAIN cache : cache[c] = providers[k]
                   /\ last.category \in providers[k].capabilities
            /\ \A j, k \in DOMAIN providers :
                   j # k => providers[j].id # providers[k].id

\* The oracle named with high confidence a cached candidate and a provider
\* that is not cached: the candidate alone is returned.
C40_Witness ==
    /\ last.op = "find_suitable_providers"
    /\ last.selection.oracle_calls = 1
    /\ WellFormedMatches(last.response_text)
    /\ \E k \in DOMAIN last.response_text.json[1].field.items :
           /\ last.response_text.json[1].field.items[k].provider_id = "p9"
           /\ last.response_text.json[1].field.items[k].confidence = Number(9)
    /\ \A c \in DOMAIN last.selection.provider_cache :
           last.selection.provider_cache[c].id # "p9"
    /\ Len(last.selection.provider_cache) = 3
    /\ Len(last.selection.providers) = 1
    /\ last.selection.providers[1].id = "p2"

====
